---- MODULE Spec2Model ----
(***************************************************************************)
(* The SEARCH/REPLACE patch engine of clicode                              *)
(* (clicode/security/advanced_patch_system.py) and the replace_in_file     *)
(* tool in front of it (clicode/tools/file_tools.py).                      *)
(*                                                                         *)
(* Representation.  A Python str is a sequence of symbols.  A symbol is a  *)
(* one-character string ("a", " ", "\n"), one of the three marker words    *)
(* ("<<<<<<< SEARCH", "=======", ">>>>>>> REPLACE") taken as one symbol,   *)
(* or a fixed fragment of a message.  The empty str is << >>.  A list of   *)
(* lines is a sequence of such strs.  Python indexes from 0: the model     *)
(* keeps the 0-based indexes of the code and adds 1 where it subscripts a  *)
(* TLA+ sequence.  A float confidence is the exact fraction <<num, den>>.  *)
(***************************************************************************)
EXTENDS Integers, Sequences, FiniteSets, TLC

(***************************************************************************)
(* Bounds of the model.                                                    *)
(***************************************************************************)
MaxBufLines == 6        \* lines of a buffer handed to apply_chunk
MaxDelLines == 5        \* search (del) lines of a chunk
MaxFileLines == 2       \* lines of the target file of a patch
MaxBlocks == 2          \* blocks of a diff

(***************************************************************************)
(* Generic helpers.                                                        *)
(***************************************************************************)
Min(S) == CHOOSE x \in S : \A y \in S : x <= y
Max(S) == CHOOSE x \in S : \A y \in S : x >= y

\* All sequences over S of length 0..n.
SeqsUpTo(S, n) == UNION {[1..k -> S] : k \in 0..n}

\* Python slice s[lo:hi]: a negative bound counts from the end, and both
\* bounds are clipped to 0..len(s).
SliceBound(s, x) ==
    LET y == IF x < 0 THEN x + Len(s) ELSE x
    IN  IF y < 0 THEN 0 ELSE IF y > Len(s) THEN Len(s) ELSE y

Slice(s, lo, hi) ==
    LET l == SliceBound(s, lo)
        h == SliceBound(s, hi)
    IN  IF l >= h THEN << >> ELSE SubSeq(s, l + 1, h)

\* "\n".join(lines)
RECURSIVE join(_)
join(lines) ==
    IF lines = << >> THEN << >>
    ELSE IF Len(lines) = 1 THEN lines[1]
    ELSE lines[1] \o <<"\n">> \o join(Tail(lines))

(***************************************************************************)
(* difflib.SequenceMatcher(None, a, b).ratio() on two lists of lines.      *)
(* No junk function is given, and the automatic junk heuristic needs       *)
(* len(b) >= 200, so every line takes part in the matching.                *)
(***************************************************************************)
\* a[i:i+k] == b[j:j+k]
BlockAt(a, b, i, j, k) == \A d \in 0..(k - 1) : a[i + d + 1] = b[j + d + 1]

\* The longest block common to a[alo:ahi] and b[blo:bhi]; of the longest,
\* the one that starts earliest in a, and of those the earliest in b.
\* (alo, blo, 0) when the two ranges share no element.
find_longest_match(a, b, alo, ahi, blo, bhi) ==
    LET room  == IF ahi - alo < bhi - blo THEN ahi - alo ELSE bhi - blo
        sizes == {k \in 0..room :
                     \E i \in alo..(ahi - k), j \in blo..(bhi - k) :
                         BlockAt(a, b, i, j, k)}
        k     == Max(sizes)
        i     == Min({x \in alo..(ahi - k) :
                         \E y \in blo..(bhi - k) : BlockAt(a, b, x, y, k)})
        j     == Min({y \in blo..(bhi - k) : BlockAt(a, b, i, y, k)})
    IN  IF k = 0 THEN <<alo, blo, 0>> ELSE <<i, j, k>>

\* Sum of the sizes of get_matching_blocks(): the longest block, then the
\* same to the left of it and to the right of it.
RECURSIVE matching_size(_, _, _, _, _, _)
matching_size(a, b, alo, ahi, blo, bhi) ==
    LET m == find_longest_match(a, b, alo, ahi, blo, bhi)
        i == m[1]
        j == m[2]
        k == m[3]
    IN  IF k = 0 THEN 0
        ELSE k
             + (IF alo < i /\ blo < j
                THEN matching_size(a, b, alo, i, blo, j) ELSE 0)
             + (IF i + k < ahi /\ j + k < bhi
                THEN matching_size(a, b, i + k, ahi, j + k, bhi) ELSE 0)

\* ratio() = 2.0 * matches / (len(a) + len(b)), 1.0 for two empty lists.
ratio(a, b) ==
    IF Len(a) + Len(b) = 0 THEN <<1, 1>>
    ELSE <<2 * matching_size(a, b, 0, Len(a), 0, Len(b)), Len(a) + Len(b)>>

\* Comparison of two fractions with positive denominators.
FracLess(x, y) == x[1] * y[2] < y[1] * x[2]

(***************************************************************************)
(* Formatting of a confidence with the format spec ".2f": two decimals,    *)
(* rounded to nearest.  A confidence is m/n for n search lines, so a tie   *)
(* (x.xx5) needs n to be a multiple of 8; the eighths are exact binary     *)
(* fractions and go to the even digit.                                     *)
(***************************************************************************)
Digit(d) ==
    CASE d = 0 -> "0" [] d = 1 -> "1" [] d = 2 -> "2" [] d = 3 -> "3"
      [] d = 4 -> "4" [] d = 5 -> "5" [] d = 6 -> "6" [] d = 7 -> "7"
      [] d = 8 -> "8" [] d = 9 -> "9"

\* str(n) of an integer.
RECURSIVE NatStr(_)
NatStr(n) == IF n < 10 THEN <<Digit(n)>> ELSE NatStr(n \div 10) \o <<Digit(n % 10)>>

IntStr(n) == IF n < 0 THEN <<"-">> \o NatStr(0 - n) ELSE NatStr(n)

format_2f(x) ==
    LET q == (100 * x[1]) \div x[2]
        r == (100 * x[1]) % x[2]
        h == IF 2 * r > x[2] THEN q + 1
             ELSE IF 2 * r < x[2] THEN q
             ELSE IF q % 2 = 0 THEN q ELSE q + 1
    IN  NatStr(h \div 100) \o <<".", Digit((h \div 10) % 10), Digit(h % 10)>>

(***************************************************************************)
(* Chunk and FileChange (dataclasses) and PatchAction.                     *)
(***************************************************************************)
Chunk(orig_index, del_lines, ins_lines) ==
    [orig_index     |-> orig_index,
     del_lines      |-> del_lines,
     ins_lines      |-> ins_lines,
     context_before |-> << >>,
     context_after  |-> << >>]

(***************************************************************************)
(* AdvancedPatchSystem.find_best_match(file_lines, search_lines).  The     *)
(* start_hint parameter is never read by the code.  The result is          *)
(* <<best_match_index, confidence>>.                                       *)
(***************************************************************************)
\* range(len(file_lines) - len(search_lines) + 1)
WindowStarts(file_lines, search_lines) ==
    0..(Len(file_lines) - Len(search_lines))

Window(file_lines, search_lines, i) ==
    Slice(file_lines, i, i + Len(search_lines))

\* A fuzzy loop that would also take a window scoring no more than the best
\* so far (score >= best_score), so that a window scoring 0 is a match.
RECURSIVE FuzzyScanTakesTies(_, _, _, _, _)
FuzzyScanTakesTies(file_lines, search_lines, i, best_match, best_score) ==
    IF i > Len(file_lines) - Len(search_lines)
    THEN <<best_match, best_score>>
    ELSE LET score == ratio(search_lines, Window(file_lines, search_lines, i))
         IN  IF ~FracLess(score, best_score)
             THEN FuzzyScanTakesTies(file_lines, search_lines, i + 1, i, score)
             ELSE FuzzyScanTakesTies(file_lines, search_lines, i + 1,
                                     best_match, best_score)

\* The fuzzy loop from window i on, with the best window so far.
RECURSIVE FuzzyScan(_, _, _, _, _)
FuzzyScan(file_lines, search_lines, i, best_match, best_score) ==
    IF i > Len(file_lines) - Len(search_lines)
    THEN <<best_match, best_score>>
    ELSE LET score == ratio(search_lines, Window(file_lines, search_lines, i))
         IN  IF FracLess(best_score, score)
             THEN FuzzyScan(file_lines, search_lines, i + 1, i, score)
             ELSE FuzzyScan(file_lines, search_lines, i + 1,
                            best_match, best_score)

\* A matcher whose exact pass would return the last identical window.
find_best_match_last(file_lines, search_lines) ==
    IF search_lines = << >> THEN <<-1, <<0, 1>>>>
    ELSE LET search_text == join(search_lines)
             exact == {i \in WindowStarts(file_lines, search_lines) :
                          join(Window(file_lines, search_lines, i))
                              = search_text}
         IN  IF exact # {} THEN <<Max(exact), <<1, 1>>>>
             ELSE FuzzyScan(file_lines, search_lines, 0, -1, <<0, 1>>)

\* A matcher whose exact pass would compare the first line of the window only.
find_best_match_first_line(file_lines, search_lines) ==
    IF search_lines = << >> THEN <<-1, <<0, 1>>>>
    ELSE LET exact == {i \in WindowStarts(file_lines, search_lines) :
                          file_lines[i + 1] = search_lines[1]}
         IN  IF exact # {} THEN <<Min(exact), <<1, 1>>>>
             ELSE FuzzyScan(file_lines, search_lines, 0, -1, <<0, 1>>)

find_best_match(file_lines, search_lines) ==
    IF search_lines = << >> THEN <<-1, <<0, 1>>>>
    ELSE LET search_text == join(search_lines)
             exact == {i \in WindowStarts(file_lines, search_lines) :
                          join(Window(file_lines, search_lines, i))
                              = search_text}
         IN  IF exact # {} THEN <<Min(exact), <<1, 1>>>>
             ELSE FuzzyScan(file_lines, search_lines, 0, -1, <<0, 1>>)

(***************************************************************************)
(* AdvancedPatchSystem.apply_chunk(file_lines, chunk).  The result is the  *)
(* tuple (modified_lines, success, error_message) as a record.             *)
(***************************************************************************)
\* A threshold that would accept three matched lines of four.
ThresholdThreeQuarters == <<3, 4>>

\* The acceptance threshold: confidence < 0.8 is rejected.
Threshold == <<8, 10>>

MsgInsertBeyond(insert_point) ==
    <<"Insert point ">> \o IntStr(insert_point) \o <<" beyond file length">>
MsgNotFound == <<"Could not find matching lines to replace">>
MsgLowConfidence(confidence) ==
    <<"Low confidence match (">> \o format_2f(confidence)
        \o <<") - manual review required">>

ChunkOut(lines, success, error) ==
    [lines |-> lines, success |-> success, error |-> error]

\* A replacement branch that would apply any window the matcher returns,
\* whatever its confidence.
ReplacementAnyConfidence(file_lines, chunk, m) ==
    IF m[1] = -1
    THEN ChunkOut(file_lines, FALSE, MsgNotFound)
    ELSE ChunkOut(Slice(file_lines, 0, m[1])
                      \o chunk.ins_lines
                      \o Slice(file_lines, m[1] + Len(chunk.del_lines),
                               Len(file_lines)),
                  TRUE, << >>)

\* A replacement branch that would drop the lines behind the matched window.
ReplacementDropsRest(file_lines, chunk, m) ==
    IF m[1] = -1
    THEN ChunkOut(file_lines, FALSE, MsgNotFound)
    ELSE IF FracLess(m[2], Threshold)
    THEN ChunkOut(file_lines, FALSE, MsgLowConfidence(m[2]))
    ELSE ChunkOut(Slice(file_lines, 0, m[1]) \o chunk.ins_lines, TRUE, << >>)

\* A replacement branch that would put the new lines in front of the matched
\* window and keep the window, and hand back the edited buffer when the
\* confidence is too low.
ReplacementKeepsWindow(file_lines, chunk, m) ==
    IF m[1] = -1
    THEN ChunkOut(file_lines, FALSE, MsgNotFound)
    ELSE ChunkOut(Slice(file_lines, 0, m[1])
                      \o chunk.ins_lines
                      \o Slice(file_lines, m[1], Len(file_lines)),
                  ~FracLess(m[2], Threshold),
                  IF FracLess(m[2], Threshold)
                  THEN MsgLowConfidence(m[2]) ELSE << >>)

\* The replacement branch, given (match_index, confidence).
Replacement(file_lines, chunk, m) ==
    IF m[1] = -1
    THEN ChunkOut(file_lines, FALSE, MsgNotFound)
    ELSE IF FracLess(m[2], Threshold)
    THEN ChunkOut(file_lines, FALSE, MsgLowConfidence(m[2]))
    ELSE ChunkOut(Slice(file_lines, 0, m[1])
                      \o chunk.ins_lines
                      \o Slice(file_lines, m[1] + Len(chunk.del_lines),
                               Len(file_lines)),
                  TRUE, << >>)

\* An insertion that would clamp a position beyond the end to the end of the
\* buffer.
apply_chunk_clamped(file_lines, chunk) ==
    IF chunk.del_lines = << >>
    THEN LET insert_point == Min({chunk.orig_index, Len(file_lines)})
         IN  ChunkOut(Slice(file_lines, 0, insert_point)
                          \o chunk.ins_lines
                          \o Slice(file_lines, insert_point, Len(file_lines)),
                      TRUE, << >>)
    ELSE Replacement(file_lines, chunk,
                     find_best_match(file_lines, chunk.del_lines))

apply_chunk(file_lines, chunk) ==
    IF chunk.del_lines = << >>
    THEN LET insert_point == chunk.orig_index
         IN  IF insert_point > Len(file_lines)
             THEN ChunkOut(file_lines, FALSE, MsgInsertBeyond(insert_point))
             ELSE ChunkOut(Slice(file_lines, 0, insert_point)
                               \o chunk.ins_lines
                               \o Slice(file_lines, insert_point,
                                        Len(file_lines)),
                           TRUE, << >>)
    ELSE Replacement(file_lines, chunk,
                     find_best_match(file_lines, chunk.del_lines))

(***************************************************************************)
(* str methods used by the engine.                                         *)
(***************************************************************************)
\* Characters removed by str.strip().
Whitespace == {" ", "\t", "\n", "\r", "\f"}

\* Line boundaries of str.splitlines() that can occur in text read in
\* universal-newlines mode ("\r" and "\r\n" arrive as "\n"); "\f" stands
\* for the boundaries other than "\n" (vertical tab, form feed, the
\* separator controls, NEL, LS and PS).
LineBoundaries == {"\n", "\f"}

RECURSIVE lstrip(_)
lstrip(s) ==
    IF s # << >> /\ Head(s) \in Whitespace THEN lstrip(Tail(s)) ELSE s

RECURSIVE rstrip(_)
rstrip(s) ==
    IF s # << >> /\ s[Len(s)] \in Whitespace
    THEN rstrip(SubSeq(s, 1, Len(s) - 1)) ELSE s

strip(s) == rstrip(lstrip(s))

\* s.startswith(prefix)
startswith(s, prefix) ==
    Len(s) >= Len(prefix) /\ SubSeq(s, 1, Len(prefix)) = prefix

\* s.split("\n"): the pieces between the separators; always at least one.
RECURSIVE SplitFrom(_, _, _)
SplitFrom(s, cur, acc) ==
    IF s = << >> THEN Append(acc, cur)
    ELSE IF Head(s) = "\n" THEN SplitFrom(Tail(s), << >>, Append(acc, cur))
    ELSE SplitFrom(Tail(s), Append(cur, Head(s)), acc)

split(s) == SplitFrom(s, << >>, << >>)

\* s.splitlines(): the lines without their boundaries; no empty last line
\* after a final boundary.
RECURSIVE SplitlinesFrom(_, _, _)
SplitlinesFrom(s, cur, acc) ==
    IF s = << >> THEN (IF cur = << >> THEN acc ELSE Append(acc, cur))
    ELSE IF Head(s) \in LineBoundaries
    THEN SplitlinesFrom(Tail(s), << >>, Append(acc, cur))
    ELSE SplitlinesFrom(Tail(s), Append(cur, Head(s)), acc)

splitlines(s) == SplitlinesFrom(s, << >>, << >>)

(***************************************************************************)
(* AdvancedPatchSystem.parse_search_replace_block(diff_text).  The result  *)
(* is Returned(changes) or Raised(message) for the ValueError.             *)
(***************************************************************************)
SEARCH_MARK  == "<<<<<<< SEARCH"
SEPARATOR    == "======="
REPLACE_MARK == ">>>>>>> REPLACE"

\* Optional[str]
None == << >>
Some(x) == <<x>>

FileChange(action, path, chunks) ==
    [action      |-> action,
     path        |-> path,
     chunks      |-> chunks,
     new_content |-> None,
     move_to     |-> None]

Returned(v) == [raised |-> FALSE, value |-> v, error |-> << >>]
Raised(e)   == [raised |-> TRUE, value |-> << >>, error |-> e]

MsgMissingSeparator ==
    <<"Invalid SEARCH/REPLACE block: missing '", SEPARATOR, "' separator">>
MsgMissingEnd ==
    <<"Invalid SEARCH/REPLACE block: missing '", REPLACE_MARK, "' end">>

\* while i < len(lines) and lines[i].strip() != marker: i += 1
RECURSIVE ScanUntil(_, _, _)
ScanUntil(lines, i, marker) ==
    IF i < Len(lines) /\ strip(lines[i + 1]) # <<marker>>
    THEN ScanUntil(lines, i + 1, marker)
    ELSE i

\* A parser that would keep the content lines without their surrounding
\* whitespace.
RECURSIVE ParseFromStripped(_, _, _)
ParseFromStripped(lines, i, changes) ==
    IF i >= Len(lines) THEN Returned(changes)
    ELSE IF startswith(strip(lines[i + 1]), <<SEARCH_MARK>>)
    THEN LET sep == ScanUntil(lines, i + 1, SEPARATOR)
             end == ScanUntil(lines, sep + 1, REPLACE_MARK)
         IN  IF sep >= Len(lines) THEN Raised(MsgMissingSeparator)
             ELSE IF end >= Len(lines) THEN Raised(MsgMissingEnd)
             ELSE ParseFromStripped(lines, end + 1,
                     Append(changes,
                         FileChange("update", << >>,
                             <<Chunk(0,
                                 [k \in 1..(sep - i - 1) |->
                                      strip(lines[i + 1 + k])],
                                 [k \in 1..(end - sep - 1) |->
                                      strip(lines[sep + 1 + k])])>>)))
    ELSE ParseFromStripped(lines, i + 1, changes)

\* A parser that would give each chunk the number of the blocks before it
\* as its orig_index.
RECURSIVE ParseFromNumbered(_, _, _)
ParseFromNumbered(lines, i, changes) ==
    IF i >= Len(lines) THEN Returned(changes)
    ELSE IF startswith(strip(lines[i + 1]), <<SEARCH_MARK>>)
    THEN LET sep == ScanUntil(lines, i + 1, SEPARATOR)
             end == ScanUntil(lines, sep + 1, REPLACE_MARK)
         IN  IF sep >= Len(lines) THEN Raised(MsgMissingSeparator)
             ELSE IF end >= Len(lines) THEN Raised(MsgMissingEnd)
             ELSE ParseFromNumbered(lines, end + 1,
                     Append(changes,
                         FileChange("update", << >>,
                             <<Chunk(Len(changes), Slice(lines, i + 1, sep),
                                     Slice(lines, sep + 1, end))>>)))
    ELSE ParseFromNumbered(lines, i + 1, changes)

RECURSIVE ParseFrom(_, _, _)
ParseFrom(lines, i, changes) ==
    IF i >= Len(lines) THEN Returned(changes)
    ELSE IF startswith(strip(lines[i + 1]), <<SEARCH_MARK>>)
    THEN LET sep == ScanUntil(lines, i + 1, SEPARATOR)
             end == ScanUntil(lines, sep + 1, REPLACE_MARK)
         IN  IF sep >= Len(lines) THEN Raised(MsgMissingSeparator)
             ELSE IF end >= Len(lines) THEN Raised(MsgMissingEnd)
             ELSE ParseFrom(lines, end + 1,
                     Append(changes,
                         FileChange("update", << >>,
                             <<Chunk(0, Slice(lines, i + 1, sep),
                                        Slice(lines, sep + 1, end))>>)))
    ELSE ParseFrom(lines, i + 1, changes)

parse_search_replace_block(diff_text) ==
    ParseFrom(split(strip(diff_text)), 0, << >>)

(***************************************************************************)
(* PatchResult and its methods.                                            *)
(***************************************************************************)
PatchResult(success, message) ==
    [success         |-> success,
     message         |-> message,
     applied_changes |-> << >>,
     failed_changes  |-> << >>,
     warnings        |-> << >>]

add_success(result, change) ==
    [result EXCEPT !.applied_changes = Append(@, change)]

\* An add_failure that would leave the success flag as it is.
add_failure_keeps_success(result, change, error) ==
    [result EXCEPT !.failed_changes = Append(@, <<change, error>>)]

add_failure(result, change, error) ==
    [result EXCEPT !.failed_changes = Append(@, <<change, error>>),
                   !.success = FALSE]

(***************************************************************************)
(* The target file.  exists: os.path.exists; readable / writable: whether  *)
(* open(path, "r") / open(path, "w") succeed; content: its text.           *)
(***************************************************************************)
File(exists, readable, writable, content) ==
    [exists |-> exists, readable |-> readable, writable |-> writable,
     content |-> content, isdir |-> FALSE]

\* A directory, and a path that names nothing.
Directory == [File(TRUE, TRUE, TRUE, << >>) EXCEPT !.isdir = TRUE]
Absent    == File(FALSE, FALSE, FALSE, << >>)

\* str(e) of the PermissionError raised by open().
PermissionDenied(path) ==
    <<"[Errno 13] Permission denied: '">> \o path \o <<"'">>

\* str(e) of the IsADirectoryError raised by open() and os.remove() on a
\* directory (the text Linux gives).
IsADirectory(path) ==
    <<"[Errno 21] Is a directory: '">> \o path \o <<"'">>

(***************************************************************************)
(* AdvancedPatchSystem._apply_update_file(change) on the file d.  The      *)
(* result carries the PatchResult, the file afterwards and the operations  *)
(* performed on the file and its buffer, in order.                         *)
(***************************************************************************)
MsgFileMissing(path)     == <<"File does not exist: ">> \o path
MsgUpdated(path)         == <<"Successfully updated file: ">> \o path
MsgUpdateFailed(path, e) == <<"Failed to update file ">> \o path \o <<": ">> \o e

\* sorted(chunks, key=lambda c: c.orig_index): a stable sort.
RECURSIVE InsertSorted(_, _)
InsertSorted(sorted, c) ==
    IF sorted = << >> THEN <<c>>
    ELSE IF sorted[Len(sorted)].orig_index <= c.orig_index
    THEN Append(sorted, c)
    ELSE Append(InsertSorted(SubSeq(sorted, 1, Len(sorted) - 1), c),
                sorted[Len(sorted)])

RECURSIVE SortedFrom(_, _)
SortedFrom(chunks, acc) ==
    IF chunks = << >> THEN acc
    ELSE SortedFrom(Tail(chunks), InsertSorted(acc, Head(chunks)))

sorted_chunks(chunks) == SortedFrom(chunks, << >>)

\* The loop over the sorted chunks: the buffer, the running offset and the
\* number of chunks handed to apply_chunk so far; stops at the first
\* failure.
RECURSIVE ApplyChunks(_, _, _, _)
\* The rest of an iteration, given the result of apply_chunk.
AfterChunk(chunks, modified_lines, offset, tried, applied) ==
    IF ~applied.success
    THEN [success |-> FALSE, lines |-> modified_lines,
          error |-> applied.error, tried |-> tried + 1]
    ELSE ApplyChunks(Tail(chunks), applied.lines,
             offset + Len(Head(chunks).ins_lines) - Len(Head(chunks).del_lines),
             tried + 1)

ApplyChunks(chunks, modified_lines, offset, tried) ==
    IF chunks = << >>
    THEN [success |-> TRUE, lines |-> modified_lines, error |-> << >>,
          tried |-> tried]
    ELSE AfterChunk(chunks, modified_lines, offset, tried,
             apply_chunk(modified_lines,
                 [Head(chunks) EXCEPT !.orig_index = @ + offset]))

Effect(result, disk, ops) == [result |-> result, disk |-> disk, ops |-> ops]

\* An update that would write the buffer it has when a chunk fails.
AfterChunksWritesPartial(change, d, r) ==
    IF ~d.writable
    THEN Effect(PatchResult(FALSE,
                    MsgUpdateFailed(change.path, PermissionDenied(change.path))),
                d, <<"read">> \o [k \in 1..r.tried |-> "apply_chunk"])
    ELSE IF ~r.success
    THEN Effect(add_failure(PatchResult(TRUE, << >>), change, r.error),
                [d EXCEPT !.content = join(r.lines)],
                <<"read">> \o [k \in 1..r.tried |-> "apply_chunk"]
                    \o <<"write">>)
    ELSE Effect([add_success(PatchResult(TRUE, << >>), change)
                    EXCEPT !.message = MsgUpdated(change.path)],
                [d EXCEPT !.content = join(r.lines)],
                <<"read">> \o [k \in 1..r.tried |-> "apply_chunk"]
                    \o <<"write">>)

\* After the loop over the chunks, whose outcome is r.
AfterChunks(change, d, r) ==
    IF ~r.success
    THEN Effect(add_failure(PatchResult(TRUE, << >>), change, r.error),
                d, <<"read">> \o [k \in 1..r.tried |-> "apply_chunk"])
    ELSE IF ~d.writable
    THEN Effect(PatchResult(FALSE,
                    MsgUpdateFailed(change.path, PermissionDenied(change.path))),
                d, <<"read">> \o [k \in 1..r.tried |-> "apply_chunk"])
    ELSE Effect([add_success(PatchResult(TRUE, << >>), change)
                    EXCEPT !.message = MsgUpdated(change.path)],
                [d EXCEPT !.content = join(r.lines)],
                <<"read">> \o [k \in 1..r.tried |-> "apply_chunk"]
                    \o <<"write">>)

_apply_update_file(change, d) ==
    IF ~d.exists
    THEN Effect(PatchResult(FALSE, MsgFileMissing(change.path)), d, << >>)
    ELSE IF d.isdir
    THEN Effect(PatchResult(FALSE,
                    MsgUpdateFailed(change.path, IsADirectory(change.path))),
                d, << >>)
    ELSE IF ~d.readable
    THEN Effect(PatchResult(FALSE,
                    MsgUpdateFailed(change.path, PermissionDenied(change.path))),
                d, << >>)
    ELSE AfterChunks(change, d,
             ApplyChunks(sorted_chunks(change.chunks), splitlines(d.content),
                         0, 0))

(***************************************************************************)
(* The filesystem: a function from the paths that exist to what they name. *)
(* A path is the sequence of its components; a relative path of one        *)
(* component has the directory part "".                                    *)
(***************************************************************************)
\* What the path names.
FileAt(fs, path) == IF path \in DOMAIN fs THEN fs[path] ELSE Absent

\* os.path.exists(path)
exists(fs, path) == FileAt(fs, path).exists

\* os.path.dirname(path)
dirname(path) == SubSeq(path, 1, Len(path) - 1)

\* path lies below the directory dir.
Below(dir, path) == Len(path) > Len(dir) /\ SubSeq(path, 1, Len(dir)) = dir

\* The filesystem with f at path.
Put(fs, path, f) ==
    [q \in DOMAIN fs \cup {path} |-> IF q = path THEN f ELSE fs[q]]

\* The filesystem without the paths of S.
Without(fs, S) == [q \in DOMAIN fs \ S |-> fs[q]]

NoSuchFile(path) ==
    <<"[Errno 2] No such file or directory: '">> \o path \o <<"'">>
FileExistsError(path) ==
    <<"[Errno 17] File exists: '">> \o path \o <<"'">>
NotADirectory(path) ==
    <<"[Errno 20] Not a directory: '">> \o path \o <<"'">>
RenameError(errno, src, dst) ==
    errno \o <<": '">> \o src \o <<"' -> '">> \o dst \o <<"'">>

\* The outcome of a filesystem call: the filesystem afterwards, and the
\* text of the OSError when it raised.
Done(fs) == [raised |-> FALSE, fs |-> fs, error |-> << >>]
Failed(fs, e) == [raised |-> TRUE, fs |-> fs, error |-> e]

\* os.makedirs(dir, exist_ok=True): the missing directories of dir are made
\* from the top down, k components being in place already.
RECURSIVE MakedirsFrom(_, _, _)
MakedirsFrom(fs, dir, k) ==
    IF k >= Len(dir) THEN Done(fs)
    ELSE LET prefix == SubSeq(dir, 1, k + 1)
         IN  IF ~exists(fs, prefix)
             THEN MakedirsFrom(Put(fs, prefix, Directory), dir, k + 1)
             ELSE IF FileAt(fs, prefix).isdir
             THEN MakedirsFrom(fs, dir, k + 1)
             ELSE Failed(fs, IF k + 1 = Len(dir) THEN FileExistsError(prefix)
                                 ELSE NotADirectory(dir))

makedirs(fs, dir) ==
    IF dir = << >> THEN Failed(fs, NoSuchFile(<< >>))
    ELSE MakedirsFrom(fs, dir, 0)

\* os.rename(src, dst) of an existing src, the parent of dst being there.
rename(fs, src, dst) ==
    LET s == FileAt(fs, src)
        d == FileAt(fs, dst)
        moved == {q \in DOMAIN fs : q = src \/ Below(src, q)}
        target(q) == dst \o SubSeq(q, Len(src) + 1, Len(q))
        kept == Without(fs, moved \cup {q \in DOMAIN fs : q = dst})
    IN  IF src = dst THEN Done(fs)
        ELSE IF Below(src, dst)
        THEN Failed(fs, RenameError(<<"[Errno 22] Invalid argument">>, src, dst))
        ELSE IF d.exists /\ d.isdir /\ ~s.isdir
        THEN Failed(fs, RenameError(<<"[Errno 21] Is a directory">>, src, dst))
        ELSE IF d.exists /\ ~d.isdir /\ s.isdir
        THEN Failed(fs, RenameError(<<"[Errno 20] Not a directory">>, src, dst))
        ELSE IF d.exists /\ d.isdir /\ (\E q \in DOMAIN fs : Below(dst, q))
        THEN Failed(fs, RenameError(<<"[Errno 39] Directory not empty">>,
                                    src, dst))
        ELSE Done([q \in DOMAIN kept \cup {target(m) : m \in moved} |->
                      IF \E m \in moved : target(m) = q
                      THEN fs[CHOOSE m \in moved : target(m) = q]
                      ELSE kept[q]])

(***************************************************************************)
(* AdvancedPatchSystem._apply_add_file(change).                            *)
(***************************************************************************)
MsgFileExists(path)      == <<"File already exists: ">> \o path
MsgCreated(path)         == <<"Successfully created file: ">> \o path
MsgCreateFailed(path, e) == <<"Failed to create file ">> \o path \o <<": ">> \o e

\* lines.extend(chunk.ins_lines) over the chunks
RECURSIVE InsertedLines(_)
InsertedLines(chunks) ==
    IF chunks = << >> THEN << >>
    ELSE Head(chunks).ins_lines \o InsertedLines(Tail(chunks))

\* What is written: new_content when it is given and not empty, else the
\* inserted lines of the chunks.
AddedContent(change) ==
    IF change.new_content # None /\ change.new_content[1] # << >>
    THEN change.new_content[1]
    ELSE join(InsertedLines(change.chunks))

\* After os.makedirs, whose outcome is made.
AfterMakedirsAdd(change, made) ==
    IF made.raised
    THEN Effect(PatchResult(FALSE, MsgCreateFailed(change.path, made.error)),
                made.fs, <<"makedirs">>)
    ELSE Effect([add_success(PatchResult(TRUE, << >>), change)
                    EXCEPT !.message = MsgCreated(change.path)],
                Put(made.fs, change.path,
                    File(TRUE, TRUE, TRUE, AddedContent(change))),
                <<"makedirs", "write">>)

\* A creation that would not look whether the path exists.
_apply_add_file_overwrites(change, fs) ==
    AfterMakedirsAdd(change, makedirs(fs, dirname(change.path)))

_apply_add_file(change, fs) ==
    IF exists(fs, change.path)
    THEN Effect(PatchResult(FALSE, MsgFileExists(change.path)), fs, << >>)
    ELSE AfterMakedirsAdd(change, makedirs(fs, dirname(change.path)))

(***************************************************************************)
(* AdvancedPatchSystem._apply_delete_file(change).                         *)
(***************************************************************************)
MsgDeleted(path)         == <<"Successfully deleted file: ">> \o path
MsgDeleteFailed(path, e) == <<"Failed to delete file ">> \o path \o <<": ">> \o e

_apply_delete_file(change, fs) ==
    IF ~exists(fs, change.path)
    THEN Effect(PatchResult(FALSE, MsgFileMissing(change.path)), fs, << >>)
    ELSE IF FileAt(fs, change.path).isdir
    THEN Effect(PatchResult(FALSE,
                    MsgDeleteFailed(change.path, IsADirectory(change.path))),
                fs, <<"remove">>)
    ELSE Effect([add_success(PatchResult(TRUE, << >>), change)
                    EXCEPT !.message = MsgDeleted(change.path)],
                Without(fs, {change.path}), <<"remove">>)

(***************************************************************************)
(* AdvancedPatchSystem._apply_move_file(change).                           *)
(***************************************************************************)
MsgSourceMissing(path) == <<"Source file does not exist: ">> \o path
MsgNoDestination       == <<"Move destination not specified">>
MsgMoved(src, dst) ==
    <<"Successfully moved file from ">> \o src \o <<" to ">> \o dst
MsgMoveFailed(e) == <<"Failed to move file: ">> \o e

\* After os.rename, whose outcome is renamed.
\* A move that would report a failed rename without a message.
AfterRenameSilent(change, renamed) ==
    IF renamed.raised
    THEN Effect(PatchResult(FALSE, << >>),
                renamed.fs, <<"makedirs", "rename">>)
    ELSE Effect([add_success(PatchResult(TRUE, << >>), change)
                    EXCEPT !.message = MsgMoved(change.path,
                                                change.move_to[1])],
                renamed.fs, <<"makedirs", "rename">>)

AfterRename(change, renamed) ==
    IF renamed.raised
    THEN Effect(PatchResult(FALSE, MsgMoveFailed(renamed.error)),
                renamed.fs, <<"makedirs", "rename">>)
    ELSE Effect([add_success(PatchResult(TRUE, << >>), change)
                    EXCEPT !.message = MsgMoved(change.path,
                                                change.move_to[1])],
                renamed.fs, <<"makedirs", "rename">>)

\* After os.makedirs, whose outcome is made.
AfterMakedirsMove(change, made) ==
    IF made.raised
    THEN Effect(PatchResult(FALSE, MsgMoveFailed(made.error)),
                made.fs, <<"makedirs">>)
    ELSE AfterRename(change, rename(made.fs, change.path, change.move_to[1]))

_apply_move_file(change, fs) ==
    IF ~exists(fs, change.path)
    THEN Effect(PatchResult(FALSE, MsgSourceMissing(change.path)), fs, << >>)
    ELSE IF change.move_to = None \/ change.move_to[1] = << >>
    THEN Effect(PatchResult(FALSE, MsgNoDestination), fs, << >>)
    ELSE AfterMakedirsMove(change, makedirs(fs, dirname(change.move_to[1])))

(***************************************************************************)
(* AdvancedPatchSystem.apply_file_change(change): dispatch on the action.  *)
(* The parser only builds UPDATE changes.                                  *)
(***************************************************************************)
MsgUnknownAction(action) == <<"Unknown action: ", action>>

\* _apply_update_file works on the file the path names; e is its effect.
UpdatedIn(fs, path, e) ==
    Effect(e.result,
           IF path \in DOMAIN fs THEN Put(fs, path, e.disk) ELSE fs,
           e.ops)

apply_file_change(change, fs) ==
    IF change.action = "add" THEN _apply_add_file(change, fs)
    ELSE IF change.action = "delete" THEN _apply_delete_file(change, fs)
    ELSE IF change.action = "update"
    THEN UpdatedIn(fs, change.path,
                   _apply_update_file(change, FileAt(fs, change.path)))
    ELSE IF change.action = "move" THEN _apply_move_file(change, fs)
    ELSE Effect(PatchResult(FALSE, MsgUnknownAction(change.action)), fs, << >>)

(***************************************************************************)
(* AdvancedPatchSystem.validate_patch_safety(changes).                     *)
(***************************************************************************)
LargeChangeLimit == 100

RECURSIVE SumLen(_, _)
SumLen(chunks, field) ==
    IF chunks = << >> THEN 0
    ELSE Len(Head(chunks)[field]) + SumLen(Tail(chunks), field)

MsgDeleting(path) == <<"Deleting file: ">> \o path
MsgLargeDeletion(path, n) ==
    <<"Large deletion in ">> \o path \o <<": ">> \o IntStr(n) \o <<" lines">>
MsgLargeInsertion(path, n) ==
    <<"Large insertion in ">> \o path \o <<": ">> \o IntStr(n) \o <<" lines">>

\* A check that would also warn at exactly the limit.
ChangeWarningsAtLimit(change) ==
    LET total_deletions  == SumLen(change.chunks, "del_lines")
        total_insertions == SumLen(change.chunks, "ins_lines")
    IN  (IF change.action = "delete" THEN <<MsgDeleting(change.path)>>
         ELSE << >>)
        \o (IF change.action = "update" /\ total_deletions >= LargeChangeLimit
            THEN <<MsgLargeDeletion(change.path, total_deletions)>>
            ELSE << >>)
        \o (IF change.action = "update" /\ total_insertions >= LargeChangeLimit
            THEN <<MsgLargeInsertion(change.path, total_insertions)>>
            ELSE << >>)

ChangeWarnings(change) ==
    LET total_deletions  == SumLen(change.chunks, "del_lines")
        total_insertions == SumLen(change.chunks, "ins_lines")
    IN  (IF change.action = "delete" THEN <<MsgDeleting(change.path)>>
         ELSE << >>)
        \o (IF change.action = "update" /\ total_deletions > LargeChangeLimit
            THEN <<MsgLargeDeletion(change.path, total_deletions)>>
            ELSE << >>)
        \o (IF change.action = "update" /\ total_insertions > LargeChangeLimit
            THEN <<MsgLargeInsertion(change.path, total_insertions)>>
            ELSE << >>)

RECURSIVE validate_patch_safety(_)
validate_patch_safety(changes) ==
    IF changes = << >> THEN << >>
    ELSE ChangeWarnings(Head(changes)) \o validate_patch_safety(Tail(changes))

(***************************************************************************)
(* The path jail (clicode/security/security.py).  A path is the sequence   *)
(* of its components; the process stays in the working directory.          *)
(***************************************************************************)
WORKING_DIRECTORY == <<"/work">>
getcwd == WORKING_DIRECTORY

\* Path(path).resolve(): relative to the current directory, ".." removes
\* the last component.
RECURSIVE Normalise(_, _)
Normalise(base, path) ==
    IF path = << >> THEN base
    ELSE IF Head(path) = ".."
    THEN Normalise(IF Len(base) > 0 THEN SubSeq(base, 1, Len(base) - 1)
                   ELSE base, Tail(path))
    ELSE IF Head(path) = "." THEN Normalise(base, Tail(path))
    ELSE Normalise(Append(base, Head(path)), Tail(path))

resolve(path) == Normalise(getcwd, path)

MsgOutside(path) ==
    <<"Path '">> \o path \o <<"' is outside working directory '">>
        \o WORKING_DIRECTORY \o <<"'">>

\* <<is_safe, message>>
is_path_safe(path) ==
    IF startswith(resolve(path), WORKING_DIRECTORY)
    THEN <<TRUE, <<"Path is safe">>>>
    ELSE <<FALSE, MsgOutside(path)>>

validate_path_or_error(path) ==
    LET r == is_path_safe(path)
    IN  IF ~r[1] THEN <<"Security Error: ">> \o r[2] ELSE << >>

get_safe_path(path) == resolve(path)

(***************************************************************************)
(* validate_file_access (clicode/security/file_validation.py) for a        *)
(* regular file of a known safe text type (".txt") under the size limit:   *)
(* the checks that depend on the state of the file.                        *)
(***************************************************************************)
validate_file_access(file_path, d) ==
    IF ~d.exists
    THEN [is_valid |-> FALSE, warnings |-> << >>,
          errors |-> <<<<"File does not exist: ">> \o file_path>>]
    ELSE [is_valid |-> d.readable,
          warnings |-> IF d.writable THEN << >>
                       ELSE <<<<"File is not writable">>>>,
          errors   |-> IF d.readable THEN << >>
                       ELSE <<<<"File is not readable">>>>]

RECURSIVE Bullets(_)
Bullets(items) ==
    IF items = << >> THEN << >>
    ELSE <<"  * ">> \o Head(items) \o <<"\n">> \o Bullets(Tail(items))

\* Only called by replace_in_file for an invalid result.
format_validation_message(result) ==
    strip((IF ~result.is_valid
           THEN <<"File validation failed:", "\n">> \o Bullets(result.errors)
           ELSE <<"File validation passed", " (text file)", "\n">>)
          \o (IF result.warnings # << >>
              THEN <<"Warnings:", "\n">> \o Bullets(result.warnings)
              ELSE << >>))

(***************************************************************************)
(* Binding of a call to a signature: a keyword argument must name a        *)
(* parameter that no positional argument has filled, else TypeError.       *)
(***************************************************************************)
\* def apply_search_replace_patch(file_path, diff_text)
apply_search_replace_patch_params == <<"file_path", "diff_text">>

\* apply_search_replace_patch(str(safe_path), diff, create_backup=True)
replace_in_file_call == [positional |-> 2, keywords |-> {"create_backup"}]

\* apply_search_replace_patch(file_path, diff_text), the call of the
\* engine's own signature
direct_call == [positional |-> 2, keywords |-> {}]

Binds(params, call) ==
    /\ call.positional <= Len(params)
    /\ call.keywords
           \subseteq {params[k] : k \in (call.positional + 1)..Len(params)}

MsgUnexpectedKeyword(call, params) ==
    LET kw == CHOOSE k \in call.keywords :
                  k \notin {params[n] : n \in 1..Len(params)}
    IN  <<"apply_search_replace_patch() got an unexpected keyword argument '",
          kw, "'">>

(***************************************************************************)
(* The text returned by replace_in_file once the engine has returned.      *)
(***************************************************************************)
RECURSIVE FailureBullets(_)
FailureBullets(failed) ==
    IF failed = << >> THEN << >>
    ELSE <<"  * ">> \o Head(failed)[2] \o <<"\n">> \o FailureBullets(Tail(failed))

BuildResponse(validation_result, patch_result) ==
    strip(<<"Advanced Patch System Results:", "\n", "\n">>
          \o (IF validation_result.warnings # << >>
              THEN <<"File Validation Warnings:", "\n">>
                       \o Bullets(validation_result.warnings) \o <<"\n">>
              ELSE << >>)
          \o (IF patch_result.success
              THEN patch_result.message \o <<"\n">>
                       \o <<"Changes applied: ">>
                       \o IntStr(Len(patch_result.applied_changes)) \o <<"\n">>
              ELSE patch_result.message \o <<"\n">>
                       \o (IF patch_result.failed_changes # << >>
                           THEN <<"Failed changes:", "\n">>
                                    \o FailureBullets(patch_result.failed_changes)
                           ELSE << >>))
          \o (IF patch_result.warnings # << >>
              THEN <<"\n", "Patch Warnings:", "\n">>
                       \o Bullets(patch_result.warnings)
              ELSE << >>))

MsgErrorModifying(e) == <<"Error modifying file: ">> \o e

(***************************************************************************)
(* The strict replace_in_file tool of src/src/tools/file_tools.py.         *)
(***************************************************************************)
MsgStrictNotExist(path) ==
    <<"Error: The file '">> \o path \o <<"' does not exist.">>
MsgStrictMissingSeparator ==
    <<"Error: Malformed diff - missing ", SEPARATOR, " separator">>
MsgStrictMissingEnd ==
    <<"Error: Malformed diff - missing ", REPLACE_MARK, " marker">>
MsgStrictNoBlocks ==
    <<"Error: No valid SEARCH/REPLACE blocks found in diff">>
MsgStrictNotFound(search_text) ==
    <<"Error: Could not find the exact text to replace:", "\n">>
        \o search_text
MsgStrictApplied(changes_made, path) ==
    <<"Successfully applied ">> \o IntStr(changes_made)
        \o <<" change(s) to '">> \o path \o <<"'">>
MsgStrictException(e) == <<"Error replacing content in file: ">> \o e

\* The block parser of the tool: the start marker is compared for equality.
\* A block is the pair (search_text, replace_text).
RECURSIVE StrictParseFrom(_, _, _)
StrictParseFrom(lines, i, blocks) ==
    IF i >= Len(lines) THEN Returned(blocks)
    ELSE IF strip(lines[i + 1]) = <<SEARCH_MARK>>
    THEN LET sep == ScanUntil(lines, i + 1, SEPARATOR)
             end == ScanUntil(lines, sep + 1, REPLACE_MARK)
         IN  IF sep >= Len(lines) THEN Raised(MsgStrictMissingSeparator)
             ELSE IF end >= Len(lines) THEN Raised(MsgStrictMissingEnd)
             ELSE StrictParseFrom(lines, end + 1,
                     Append(blocks, <<join(Slice(lines, i + 1, sep)),
                                      join(Slice(lines, sep + 1, end))>>))
    ELSE StrictParseFrom(lines, i + 1, blocks)

\* s.find(sub, k): the lowest index from k on at which sub starts, or -1.
RECURSIVE FindFrom(_, _, _)
FindFrom(s, sub, k) ==
    IF k + Len(sub) > Len(s) THEN -1
    ELSE IF SubSeq(s, k + 1, k + Len(sub)) = sub THEN k
    ELSE FindFrom(s, sub, k + 1)

find(s, sub) == FindFrom(s, sub, 0)

\* A replace without the count: every occurrence, left to right.
RECURSIVE replace_every(_, _, _)
replace_every(s, old, new) ==
    LET k == find(s, old)
    IN  IF k = -1 \/ old = << >> THEN s
        ELSE SubSeq(s, 1, k) \o new
                 \o replace_every(SubSeq(s, k + Len(old) + 1, Len(s)),
                                  old, new)

\* s.replace(old, new, 1)
replace_first(s, old, new) ==
    LET k == find(s, old)
    IN  IF k = -1 THEN s
        ELSE SubSeq(s, 1, k) \o new \o SubSeq(s, k + Len(old) + 1, Len(s))

\* for search_text, replace_text in blocks: ... ; stops at the first block
\* whose search text is not in the buffer.
RECURSIVE ApplyBlocks(_, _, _)
ApplyBlocks(blocks, content, changes_made) ==
    IF blocks = << >>
    THEN [found |-> TRUE, content |-> content,
          changes_made |-> changes_made, missing |-> << >>]
    ELSE IF find(content, Head(blocks)[1]) # -1
    THEN ApplyBlocks(Tail(blocks),
                     replace_first(content, Head(blocks)[1], Head(blocks)[2]),
                     changes_made + 1)
    ELSE [found |-> FALSE, content |-> content,
          changes_made |-> changes_made, missing |-> Head(blocks)[1]]

StrictOut(response, disk, ops) ==
    [response |-> response, disk |-> disk, ops |-> ops]

\* The rest of the tool, given the outcome r of the loop over the blocks.
AfterBlocks(path, d, r) ==
    IF ~r.found
    THEN StrictOut(MsgStrictNotFound(r.missing), d, <<"read">>)
    ELSE IF ~d.writable
    THEN StrictOut(MsgStrictException(PermissionDenied(path)), d,
                   <<"read">>)
    ELSE StrictOut(MsgStrictApplied(r.changes_made, path),
                   [d EXCEPT !.content = r.content], <<"read", "write">>)

\* A tool that would take a diff without blocks for zero changes.
AfterStrictParseEmptyOk(path, d, blocks) ==
    IF blocks.raised THEN StrictOut(blocks.error, d, <<"read">>)
    ELSE AfterBlocks(path, d, ApplyBlocks(blocks.value, d.content, 0))

\* The rest of the tool, given the outcome of the block parser.
AfterStrictParse(path, d, blocks) ==
    IF blocks.raised THEN StrictOut(blocks.error, d, <<"read">>)
    ELSE IF blocks.value = << >>
    THEN StrictOut(MsgStrictNoBlocks, d, <<"read">>)
    ELSE AfterBlocks(path, d, ApplyBlocks(blocks.value, d.content, 0))

\* replace_in_file(path, diff) on the file d at path.
strict_replace_in_file(path, diff, d) ==
    IF ~d.exists THEN StrictOut(MsgStrictNotExist(path), d, << >>)
    ELSE IF d.isdir
    THEN StrictOut(MsgStrictException(IsADirectory(path)), d, << >>)
    ELSE IF ~d.readable
    THEN StrictOut(MsgStrictException(PermissionDenied(path)), d, << >>)
    ELSE AfterStrictParse(path, d,
                          StrictParseFrom(split(strip(diff)), 0, << >>))

(***************************************************************************)
(* The command tools of clicode/tools/command_tools.py.  The process has   *)
(* one current directory; the tree holds directories and files.            *)
(***************************************************************************)
\* Path(path).resolve() when the current directory of the process is dir.
resolve_from(dir, path) ==
    IF path # << >> /\ Head(path) = Head(WORKING_DIRECTORY)
    THEN Normalise(<< >>, path)
    ELSE Normalise(dir, path)

is_path_safe_from(dir, path) ==
    IF startswith(resolve_from(dir, path), WORKING_DIRECTORY)
    THEN <<TRUE, <<"Path is safe">>>>
    ELSE <<FALSE, MsgOutside(path)>>

validate_path_or_error_from(dir, path) ==
    LET r == is_path_safe_from(dir, path)
    IN  IF ~r[1] THEN <<"Security Error: ">> \o r[2] ELSE << >>

MsgPathMissing(path) == <<"Path does not exist: ">> \o path
MsgNotDirectory(path) == <<"Path is not a directory: ">> \o path
MsgDirectoryChanged(dir) == <<"Directory changed to: ">> \o dir
MsgCurrentDirectory(dir) == <<"Current directory: ">> \o dir
MsgCommand(command) ==
    <<"Command: ", command, "\n", "Exit code: ", "0", "\n">>

\* change_directory(path) in the tree: the answer and the current directory
\* afterwards.
change_directory(tree, dir, path) ==
    LET security_error == validate_path_or_error_from(dir, path)
        safe_path      == resolve_from(dir, path)
    IN  IF security_error # << >>
        THEN [response |-> security_error, cwd |-> dir, changed |-> FALSE]
        ELSE IF ~exists(tree, safe_path)
        THEN [response |-> MsgPathMissing(path), cwd |-> dir,
              changed |-> FALSE]
        ELSE IF ~FileAt(tree, safe_path).isdir
        THEN [response |-> MsgNotDirectory(path), cwd |-> dir,
              changed |-> FALSE]
        ELSE [response |-> MsgDirectoryChanged(safe_path), cwd |-> safe_path,
              changed |-> TRUE]

\* A subprocess.run that would inherit the current directory of the process.
execute_command_in_cwd(command, dir) ==
    [response |-> MsgCommand(command),
     run |-> [command |-> command, dir |-> dir]]

\* execute_command(command) when the current directory of the process is
\* dir: the answer, and the command with the directory it ran in.
execute_command(command, dir) ==
    [response |-> MsgCommand(command),
     run |-> [command |-> command, dir |-> WORKING_DIRECTORY]]

get_current_directory(dir) == MsgCurrentDirectory(dir)

(***************************************************************************)
(* Inputs.                                                                 *)
(***************************************************************************)
\* Buffers and chunks handed to apply_chunk and find_best_match.
BufLineSet == {<<"a">>, <<"b">>}
Buffers    == SeqsUpTo(BufLineSet, MaxBufLines)
DelChoices == SeqsUpTo(BufLineSet, MaxDelLines)
InsChoices == {<< >>, <<<<"x">>, <<"y">>>>}
\* orig_index: up to one past the end of the buffer for an insertion; a
\* replacement chunk never reads it.
IndexChoices(lines, del_lines) ==
    IF del_lines = << >> THEN 0..(Len(lines) + 1) ELSE {0}

\* The target file of a patch: its lines, with or without a final newline;
\* a file that cannot be read or written, and no file at all.
FileLineSet  == {<<"a">>, <<"b">>}
FileContents ==
    {join(ls) \o nl : ls \in SeqsUpTo(FileLineSet, MaxFileLines),
                      nl \in {<< >>, <<"\n">>}}
OtherContent == <<"a", "\n", "b", "\n">>
Files ==
    {File(TRUE, TRUE, TRUE, c) : c \in FileContents}
        \cup {File(TRUE, FALSE, TRUE, OtherContent),
              File(TRUE, TRUE, FALSE, OtherContent),
              File(FALSE, FALSE, FALSE, << >>)}

\* Diff texts: up to MaxBlocks well-formed blocks, and malformed texts.
\* SEARCH sides: none (an insertion), a line of the file, two lines of the
\* file, a line no file has, a line of the file followed by such a line.
SearchChoices  == {<< >>, <<<<"a">>>>, <<<<"a">>, <<"b">>>>, <<<<"c">>>>,
                   <<<<"a">>, <<"c">>>>}
ReplaceChoices == {<< >>, <<<<"x">>>>}
BlockText(search_lines, replace_lines) ==
    join(<<<<SEARCH_MARK>>>> \o search_lines \o <<<<SEPARATOR>>>>
             \o replace_lines \o <<<<REPLACE_MARK>>>>)
BlockTexts ==
    {BlockText(sl, rl) : sl \in SearchChoices, rl \in ReplaceChoices}
WellFormedDiffs ==
    {join(blocks) : blocks \in SeqsUpTo(BlockTexts, MaxBlocks) \ {<< >>}}
MalformedDiffs ==
    {<< >>,
     <<"a">>,
     <<SEARCH_MARK, "\n", "a">>,
     <<SEARCH_MARK, "\n", "a", "\n", SEPARATOR, "\n", "x">>,
     BlockText(<<<<"a">>>>, <<<<"x">>>>) \o <<"\n", SEARCH_MARK, "\n", "a">>}
DiffTexts == WellFormedDiffs \cup MalformedDiffs

\* Paths given to the replace_in_file tool: the target, and a path that
\* leaves the working directory.
ToolPaths  == {<<"a.txt">>, <<"..", "a.txt">>}
TargetPath == WORKING_DIRECTORY \o <<"a.txt">>

\* Filesystems and changes handed to apply_file_change.  The paths: a file,
\* a directory, a file in it, and a file in a directory that is not there.
FilePath    == <<"a.txt">>
DirPath     == <<"d">>
InnerPath   == <<"d", "b.txt">>
NewPath     == <<"n", "c.txt">>
ChangePaths == {FilePath, DirPath, InnerPath, NewPath}
\* With or without the file, with or without the directory, empty or not.
SmallFilesystems ==
    {[q \in top \cup sub |->
         IF q = DirPath THEN Directory
         ELSE File(TRUE, TRUE, TRUE, OtherContent)] :
        top \in SUBSET {FilePath},
        sub \in {{}, {DirPath}, {DirPath, InnerPath}}}
\* The file alone, with each content.
UpdateFilesystems ==
    {FilePath :> File(TRUE, TRUE, TRUE, c) : c \in FileContents}

Change(action, path, chunks, new_content, move_to) ==
    [FileChange(action, path, chunks) EXCEPT !.new_content = new_content,
                                             !.move_to = move_to]
AddChanges ==
    {Change("add", q, cs, nc, None) :
        q \in ChangePaths,
        cs \in {<< >>, <<Chunk(0, << >>, <<<<"x">>, <<"y">>>>)>>},
        nc \in {None, Some(<< >>), Some(<<"h">>)}}
DeleteChanges == {Change("delete", q, << >>, None, None) : q \in ChangePaths}
MoveChanges ==
    {Change("move", q, << >>, None, to) :
        q \in ChangePaths,
        to \in {None, Some(<< >>)} \cup {Some(t) : t \in ChangePaths}}
\* An update of one or two chunks: insertions and replacements of a line,
\* at any index of the file.
UpdateChunks ==
    {Chunk(o, d, i) : o \in 0..MaxFileLines,
                      d \in {<< >>, <<<<"a">>>>},
                      i \in {<< >>, <<<<"x">>>>}}
UpdateChanges ==
    {Change("update", FilePath, cs, None, None) :
        cs \in SeqsUpTo(UpdateChunks, 2) \ {<< >>}}
OtherUpdates ==
    {Change("update", q, <<Chunk(0, << >>, <<<<"x">>>>)>>, None, None) :
        q \in ChangePaths}
\* A change whose action is none of the four.
UnknownChanges == {Change("chmod", FilePath, << >>, None, None)}
\* The file alone, not readable or not writable.
LockedFilesystems ==
    {FilePath :> File(TRUE, FALSE, TRUE, OtherContent),
     FilePath :> File(TRUE, TRUE, FALSE, OtherContent)}

(***************************************************************************)
(* State.                                                                  *)
(***************************************************************************)
\* Diff texts for the parser, made of pieces: well-formed blocks (markers
\* bare or surrounded by whitespace; content lines indented, empty, or a
\* marker followed by a stray character), text outside blocks, a block
\* without separator, a block without end marker, and a start marker
\* followed by a stray character.
MaxPieces == 3
Piece(kind, lines, search, replace) ==
    [kind |-> kind, lines |-> lines, search |-> search, replace |-> replace]
Block(start, search, sep, replace, end) ==
    Piece("block", <<start>> \o search \o <<sep>> \o replace \o <<end>>,
          search, replace)
Stray(marker) == <<marker, ">">>
ParseSearch  == {<< >>, <<<<"a">>>>, <<<<" ", "a", " ">>, << >>>>}
ParseReplace == {<< >>, <<<<"\t", "x">>>>}
WellFormedBlocks ==
    {Block(<<SEARCH_MARK>>, s, <<SEPARATOR>>, r, <<REPLACE_MARK>>) :
         s \in ParseSearch, r \in ParseReplace}
    \cup {Block(<<" ", SEARCH_MARK>>, <<<<"a">>>>, <<SEPARATOR, " ">>,
                <<<<"x">>>>, <<"\t", REPLACE_MARK, " ">>),
          Block(<<SEARCH_MARK>>, <<Stray(SEPARATOR)>>, <<SEPARATOR>>,
                <<Stray(REPLACE_MARK), Stray(SEARCH_MARK)>>,
                <<REPLACE_MARK>>)}
TextPieces ==
    {Piece("text", <<<<"a">>>>, << >>, << >>),
     Piece("text", <<<< >>>>, << >>, << >>)}
NoSeparatorBlocks ==
    {Piece("no_separator", <<<<SEARCH_MARK>>, <<"a">>, <<REPLACE_MARK>>>>,
           <<<<"a">>>>, << >>),
     Piece("no_separator", <<<<SEARCH_MARK>>, <<"a">>>>, <<<<"a">>>>, << >>)}
NoEndBlocks ==
    {Piece("no_end", <<<<SEARCH_MARK>>, <<"a">>, <<SEPARATOR>>, <<"x">>>>,
           <<<<"a">>>>, <<<<"x">>>>)}
StrayStarts ==
    {Piece("stray_start", <<Stray(SEARCH_MARK)>>, << >>, << >>)}
Pieces ==
    WellFormedBlocks \cup TextPieces \cup NoSeparatorBlocks
        \cup NoEndBlocks \cup StrayStarts

RECURSIVE LinesOf(_)
LinesOf(ps) ==
    IF ps = << >> THEN << >> ELSE Head(ps).lines \o LinesOf(Tail(ps))
TextOf(ps) == join(LinesOf(ps))

\* Diffs for the strict tool: blocks whose search text is empty, occurs in
\* the file (once, or several times), occurs in no file, or is what another
\* block puts in; text outside blocks; blocks without separator or end.
StrictSearch  == {<< >>, <<<<"a">>>>, <<<<"a">>, <<"b">>>>, <<<<"c">>>>,
                  <<<<"x">>>>}
StrictReplace == {<< >>, <<<<"x">>>>}
StrictPieces ==
    {Block(<<SEARCH_MARK>>, s, <<SEPARATOR>>, r, <<REPLACE_MARK>>) :
         s \in StrictSearch, r \in StrictReplace}
    \cup {Piece("text", <<<<"a">>>>, << >>, << >>)}
    \cup NoSeparatorBlocks \cup NoEndBlocks
StrictFiles == Files \cup {Directory}
StrictPath == <<"a.txt">>

\* Lists of pending changes for validate_patch_safety.  The chunks of an
\* update delete and insert 0, 50, 51, 100 or 101 lines, so that the totals
\* of one or two chunks fall below, on and above the limit.
MaxChanges == 2
LinesOfLength(n) == [k \in 1..n |-> <<"a">>]
SafetyChunks ==
    {Chunk(0, LinesOfLength(c[1]), LinesOfLength(c[2])) :
         c \in {<<50, 50>>, <<51, 0>>, <<0, 51>>, <<100, 100>>,
                <<101, 101>>}}
SafetyChunkLists ==
    {<< >>} \cup {<<c>> : c \in SafetyChunks}
            \cup {<<c, d>> : c \in SafetyChunks, d \in SafetyChunks}
SafetyChanges ==
    {Change("update", FilePath, cs, None, None) : cs \in SafetyChunkLists}
    \cup {Change("add", NewPath, <<Chunk(0, << >>, LinesOfLength(101))>>,
                 None, None),
          Change("delete", FilePath, <<Chunk(0, LinesOfLength(101), << >>)>>,
                 None, None),
          Change("move", FilePath,
                 <<Chunk(0, LinesOfLength(101), LinesOfLength(101))>>,
                 None, Some(NewPath))}

\* The tree of the command tools: the working directory with a directory
\* in a directory and a file, and a directory outside.
MaxRuns == 2
Tree ==
    [q \in {WORKING_DIRECTORY, WORKING_DIRECTORY \o <<"sub">>,
            WORKING_DIRECTORY \o <<"sub", "deep">>, <<"/etc">>} |-> Directory]
    @@ (WORKING_DIRECTORY \o <<"a.txt">> :> File(TRUE, TRUE, TRUE, << >>))
DirectoryArgs ==
    {<<"sub">>, <<"deep">>, <<"..">>, <<"a.txt">>, <<"none">>,
     WORKING_DIRECTORY \o <<"sub">>, <<"..", "..", "etc">>}
Commands == {"ls", "pwd"}

VARIABLES
    disk,            \* the target file
    disk0,           \* the target file before the call (history)
    diff_text,       \* the diff given to the call
    pc,              \* "idle", "applying" (in the loop over the changes), "done"
    entry,           \* the function called: "replace_in_file" or
                     \* "apply_search_replace_patch"
    path,            \* the path given to replace_in_file
    changes,         \* the parsed changes, path set
    warnings,        \* the result of validate_patch_safety
    idx,             \* number of changes the loop has handled
    overall_result,  \* the PatchResult of apply_search_replace_patch
    response,        \* the text returned by replace_in_file
    log,             \* history: per change, the file operations and outcome
    file_lines,      \* apply_chunk / find_best_match: the buffer
    chunk,           \* apply_chunk / find_best_match: the chunk
    match,           \* result of find_best_match, << >> before the call
    out,             \* result of apply_chunk, << >> before the call
    fs,              \* apply_file_change: the filesystem
    fs0,             \* the filesystem before the call (history)
    change,          \* apply_file_change: the change
    result,          \* result of apply_file_change, << >> before the call
    pieces,          \* the pieces the diff of a parser call is made of
    parsed,          \* result of parse_search_replace_block, << >> before
    cwd,             \* command tools: the current directory of the process
    last_cd,         \* history: the directory of the last successful
                     \* change_directory, << >> before the first
    runs             \* history: the commands run, with the directory each
                     \* ran in and the last_cd at the time

patch_vars == <<disk, disk0, diff_text, pc, entry, path, changes, warnings,
                idx, overall_result, response, log>>
chunk_vars == <<file_lines, chunk, match, out>>
change_vars == <<fs, fs0, change, result>>
parse_vars == <<pieces, parsed>>
command_vars == <<cwd, last_cd, runs>>
vars == <<patch_vars, chunk_vars, change_vars, parse_vars, command_vars>>

PatchIdle ==
    /\ pc = "idle"
    /\ entry = "none"
    /\ path = << >>
    /\ changes = << >>
    /\ warnings = << >>
    /\ idx = 0
    /\ overall_result = PatchResult(TRUE, << >>)
    /\ response = << >>
    /\ log = << >>

ChunkIdle ==
    /\ match = << >>
    /\ out = << >>

CommandIdle ==
    /\ cwd = WORKING_DIRECTORY
    /\ last_cd = << >>
    /\ runs = << >>

ParseIdle ==
    /\ pieces = << >>
    /\ parsed = << >>
    /\ CommandIdle

ChangeIdle ==
    /\ fs = << >>
    /\ fs0 = << >>
    /\ change = FileChange("update", << >>, << >>)
    /\ result = << >>

\* A patch call on one target file.
Init ==
    /\ disk \in Files
    /\ disk0 = disk
    /\ diff_text \in DiffTexts
    /\ PatchIdle
    /\ file_lines = << >>
    /\ chunk = Chunk(0, << >>, << >>)
    /\ ChunkIdle
    /\ ChangeIdle
    /\ ParseIdle

\* One buffer and one chunk for the matcher and the chunk applier.
InitChunk ==
    /\ disk = File(FALSE, FALSE, FALSE, << >>)
    /\ disk0 = disk
    /\ diff_text = << >>
    /\ PatchIdle
    /\ file_lines \in Buffers
    /\ \E d \in DelChoices, i \in InsChoices :
           \E o \in IndexChoices(file_lines, d) : chunk = Chunk(o, d, i)
    /\ ChunkIdle
    /\ ChangeIdle
    /\ ParseIdle

\* One diff text for the parser.
InitParse ==
    /\ disk = Absent
    /\ disk0 = disk
    /\ pieces \in SeqsUpTo(Pieces, MaxPieces)
    /\ diff_text = TextOf(pieces)
    /\ PatchIdle
    /\ file_lines = << >>
    /\ chunk = Chunk(0, << >>, << >>)
    /\ ChunkIdle
    /\ ChangeIdle
    /\ parsed = << >>
    /\ CommandIdle

\* A call of the strict tool on one file.
InitStrict ==
    /\ disk \in StrictFiles
    /\ disk0 = disk
    /\ pieces \in SeqsUpTo(StrictPieces, MaxBlocks)
    /\ diff_text = TextOf(pieces)
    /\ PatchIdle
    /\ file_lines = << >>
    /\ chunk = Chunk(0, << >>, << >>)
    /\ ChunkIdle
    /\ ChangeIdle
    /\ parsed = << >>
    /\ CommandIdle

\* One list of pending changes for validate_patch_safety.
InitSafety ==
    /\ disk = Absent
    /\ disk0 = disk
    /\ diff_text = << >>
    /\ pc = "idle"
    /\ entry = "none"
    /\ path = << >>
    /\ changes \in SeqsUpTo(SafetyChanges, MaxChanges)
    /\ warnings = << >>
    /\ idx = 0
    /\ overall_result = PatchResult(TRUE, << >>)
    /\ response = << >>
    /\ log = << >>
    /\ file_lines = << >>
    /\ chunk = Chunk(0, << >>, << >>)
    /\ ChunkIdle
    /\ ChangeIdle
    /\ ParseIdle

\* The agent has started in the working directory.
InitCommand ==
    /\ disk = Absent
    /\ disk0 = disk
    /\ diff_text = << >>
    /\ PatchIdle
    /\ file_lines = << >>
    /\ chunk = Chunk(0, << >>, << >>)
    /\ ChunkIdle
    /\ ChangeIdle
    /\ ParseIdle

\* One filesystem and one change for apply_file_change.
InitChange ==
    /\ disk = Absent
    /\ disk0 = disk
    /\ diff_text = << >>
    /\ PatchIdle
    /\ file_lines = << >>
    /\ chunk = Chunk(0, << >>, << >>)
    /\ ChunkIdle
    /\ \/ /\ fs \in SmallFilesystems
          /\ change \in AddChanges \cup DeleteChanges \cup MoveChanges
                             \cup OtherUpdates \cup UnknownChanges
       \/ /\ fs \in LockedFilesystems
          /\ change \in OtherUpdates \cup DeleteChanges
       \/ /\ fs \in UpdateFilesystems
          /\ change \in UpdateChanges
    /\ fs0 = fs
    /\ result = << >>
    /\ ParseIdle

(***************************************************************************)
(* apply_search_replace_patch(file_path, diff_text), in steps: the part    *)
(* before the loop, one iteration of the loop, the part after the loop.    *)
(***************************************************************************)
MsgNoBlocks == <<"No valid SEARCH/REPLACE blocks found">>
MsgProcessingError(e) == <<"Error processing patch: ">> \o e
MsgPatchApplied(file_path) == <<"Successfully applied patch to ">> \o file_path
MsgPatchFailed(file_path) == <<"Failed to apply patch to ">> \o file_path

\* for change in changes: change.path = file_path
SetPath(cs, file_path) == [k \in 1..Len(cs) |-> [cs[k] EXCEPT !.path = file_path]]

\* The engine returns patch_result; when the tool called it, the tool
\* builds its text from it.
Finish(caller, patch_result) ==
    /\ overall_result' = patch_result
    /\ response' = IF caller = "replace_in_file"
                   THEN BuildResponse(validate_file_access(TargetPath, disk0),
                                      patch_result)
                   ELSE << >>
    /\ pc' = "done"

Entered(caller, file_path, outcome) ==
    IF outcome.raised
    THEN /\ Finish(caller, PatchResult(FALSE, MsgProcessingError(outcome.error)))
         /\ UNCHANGED <<changes, warnings, idx>>
    ELSE IF outcome.value = << >>
    THEN /\ Finish(caller, PatchResult(FALSE, MsgNoBlocks))
         /\ UNCHANGED <<changes, warnings, idx>>
    ELSE /\ changes' = SetPath(outcome.value, file_path)
         /\ warnings' = validate_patch_safety(changes')
         /\ overall_result' = PatchResult(TRUE, << >>)
         /\ idx' = 0
         /\ pc' = "applying"
         /\ UNCHANGED response

Enter(caller, file_path) ==
    Entered(caller, file_path, parse_search_replace_block(diff_text))

\* A direct call of the engine on the target file.
ApplySearchReplacePatch ==
    /\ pc = "idle"
    /\ entry' = "apply_search_replace_patch"
    /\ Enter("apply_search_replace_patch", TargetPath)
    /\ UNCHANGED <<disk, disk0, diff_text, path, log, chunk_vars,
                   change_vars, parse_vars,
                   command_vars>>

\* The body of the loop, given the effect e of apply_file_change(change).
Record(c, e) ==
    /\ disk' = FileAt(e.disk, TargetPath)
    /\ overall_result' =
           [(IF e.result.success
             THEN add_success(overall_result, c)
             ELSE add_failure(overall_result, c, e.result.message))
            EXCEPT !.warnings = @ \o e.result.warnings]
    /\ log' = log \o [k \in 1..Len(e.ops) |->
                         [block |-> idx + 1, op |-> e.ops[k]]]
                  \o <<[block |-> idx + 1,
                        op |-> IF e.result.success THEN "applied"
                               ELSE "failed"]>>

\* One iteration of "for change in changes".
ApplyChange ==
    /\ pc = "applying"
    /\ idx < Len(changes)
    /\ Record(changes[idx + 1],
              apply_file_change(changes[idx + 1], TargetPath :> disk))
    /\ idx' = idx + 1
    /\ UNCHANGED <<disk0, diff_text, pc, entry, path, changes, warnings,
                   response, chunk_vars, change_vars, parse_vars,
                   command_vars>>

\* After the loop: the safety warnings, the message, the return.
ReturnResult ==
    /\ pc = "applying"
    /\ idx = Len(changes)
    /\ Finish(entry,
              [overall_result EXCEPT
                  !.warnings = @ \o warnings,
                  !.message = IF overall_result.success
                              THEN MsgPatchApplied(TargetPath)
                              ELSE MsgPatchFailed(TargetPath)])
    /\ UNCHANGED <<disk, disk0, diff_text, entry, path, changes, warnings,
                   idx, log, chunk_vars, change_vars, parse_vars,
                   command_vars>>

(***************************************************************************)
(* replace_in_file(path, diff): the tool.                                  *)
(***************************************************************************)
ReplaceInFile ==
    /\ pc = "idle"
    /\ entry' = "replace_in_file"
    /\ \E p \in ToolPaths :
         LET security_error    == validate_path_or_error(p)
             safe_path         == get_safe_path(p)
             validation_result == validate_file_access(safe_path, disk)
         IN  /\ path' = p
             /\ IF security_error # << >>
                THEN /\ response' = security_error
                     /\ pc' = "done"
                     /\ UNCHANGED <<changes, warnings, idx, overall_result>>
                ELSE IF ~validation_result.is_valid
                THEN /\ response' = format_validation_message(validation_result)
                     /\ pc' = "done"
                     /\ UNCHANGED <<changes, warnings, idx, overall_result>>
                ELSE IF ~Binds(apply_search_replace_patch_params,
                               replace_in_file_call)
                THEN /\ response' = MsgErrorModifying(
                            MsgUnexpectedKeyword(replace_in_file_call,
                                apply_search_replace_patch_params))
                     /\ pc' = "done"
                     /\ UNCHANGED <<changes, warnings, idx, overall_result>>
                ELSE Enter("replace_in_file", safe_path)
    /\ UNCHANGED <<disk, disk0, diff_text, log, chunk_vars, change_vars,
                   parse_vars,
                   command_vars>>

(***************************************************************************)
(* Calls of the matcher and of the chunk applier on a buffer.              *)
(***************************************************************************)
FindBestMatch ==
    /\ match = << >>
    /\ match' = <<find_best_match(file_lines, chunk.del_lines)>>
    /\ UNCHANGED <<patch_vars, file_lines, chunk, out, change_vars, parse_vars,
                   command_vars>>

ApplyChunk ==
    /\ out = << >>
    /\ out' = <<apply_chunk(file_lines, chunk)>>
    /\ UNCHANGED <<patch_vars, file_lines, chunk, match, change_vars,
                   parse_vars,
                   command_vars>>

(***************************************************************************)
(* A call of apply_file_change on a filesystem.                            *)
(***************************************************************************)
\* The state after the call, given its effect e.
Applied(e) ==
    /\ fs' = e.disk
    /\ result' = <<e.result>>
    /\ log' = log \o [k \in 1..Len(e.ops) |-> [block |-> 0, op |-> e.ops[k]]]

ApplyFileChange ==
    /\ result = << >>
    /\ Applied(apply_file_change(change, fs))
    /\ UNCHANGED <<disk, disk0, diff_text, pc, entry, path, changes, warnings,
                   idx, overall_result, response, chunk_vars, fs0, change,
                   parse_vars, command_vars>>

(***************************************************************************)
(* Specifications.                                                         *)
(***************************************************************************)
(***************************************************************************)
(* A call of parse_search_replace_block on a diff text.                    *)
(***************************************************************************)
ParseSearchReplaceBlock ==
    /\ parsed = << >>
    /\ parsed' = <<parse_search_replace_block(diff_text)>>
    /\ UNCHANGED <<patch_vars, chunk_vars, change_vars, pieces,
                   command_vars>>

(***************************************************************************)
(* A call of the strict replace_in_file tool.                              *)
(***************************************************************************)
Answered(o) ==
    /\ response' = o.response
    /\ disk' = o.disk
    /\ log' = [k \in 1..Len(o.ops) |-> [block |-> 0, op |-> o.ops[k]]]

StrictReplaceInFile ==
    /\ pc = "idle"
    /\ entry' = "strict_replace_in_file"
    /\ path' = StrictPath
    /\ Answered(strict_replace_in_file(StrictPath, diff_text, disk))
    /\ pc' = "done"
    /\ UNCHANGED <<disk0, diff_text, changes, warnings, idx, overall_result,
                   chunk_vars, change_vars, parse_vars,
                   command_vars>>

(***************************************************************************)
(* A call of validate_patch_safety on a list of changes.                   *)
(***************************************************************************)
ValidatePatchSafety ==
    /\ pc = "idle"
    /\ entry' = "validate_patch_safety"
    /\ warnings' = validate_patch_safety(changes)
    /\ pc' = "done"
    /\ UNCHANGED <<disk, disk0, diff_text, path, changes, idx,
                   overall_result, response, log, chunk_vars, change_vars,
                   parse_vars,
                   command_vars>>

(***************************************************************************)
(* Calls of the command tools.                                             *)
(***************************************************************************)
Changed(o) ==
    /\ response' = o.response
    /\ cwd' = o.cwd
    /\ last_cd' = IF o.changed THEN Some(o.cwd) ELSE last_cd

ChangeDirectory ==
    /\ \E p \in DirectoryArgs : Changed(change_directory(Tree, cwd, p))
    /\ UNCHANGED <<disk, disk0, diff_text, pc, entry, path, changes, warnings,
                   idx, overall_result, log, chunk_vars, change_vars,
                   parse_vars, runs>>

Ran(o) ==
    /\ response' = o.response
    /\ runs' = Append(runs, [command |-> o.run.command, dir |-> o.run.dir,
                             last_cd |-> last_cd])

ExecuteCommand ==
    /\ Len(runs) < MaxRuns
    /\ \E c \in Commands : Ran(execute_command(c, cwd))
    /\ UNCHANGED <<disk, disk0, diff_text, pc, entry, path, changes, warnings,
                   idx, overall_result, log, chunk_vars, change_vars,
                   parse_vars, cwd, last_cd>>

GetCurrentDirectory ==
    /\ response' = get_current_directory(cwd)
    /\ UNCHANGED <<disk, disk0, diff_text, pc, entry, path, changes, warnings,
                   idx, overall_result, log, chunk_vars, change_vars,
                   parse_vars, command_vars>>

Next ==
    \/ ApplySearchReplacePatch
    \/ ApplyChange
    \/ ReturnResult
    \/ ReplaceInFile

Spec == Init /\ [][Next]_vars

NextChunk ==
    \/ FindBestMatch
    \/ ApplyChunk

SpecChunk == InitChunk /\ [][NextChunk]_vars

NextChange == ApplyFileChange

SpecChange == InitChange /\ [][NextChange]_vars

NextParse == ParseSearchReplaceBlock

SpecParse == InitParse /\ [][NextParse]_vars

NextStrict == StrictReplaceInFile

SpecStrict == InitStrict /\ [][NextStrict]_vars

NextSafety == ValidatePatchSafety

SpecSafety == InitSafety /\ [][NextSafety]_vars

NextCommand ==
    \/ ChangeDirectory
    \/ ExecuteCommand
    \/ GetCurrentDirectory

SpecCommand == InitCommand /\ [][NextCommand]_vars

\* The parser and the two orchestration layers on one diff and one file.
NextOrchestration ==
    \/ ParseSearchReplaceBlock
    \/ ApplySearchReplacePatch
    \/ ApplyChange
    \/ ReturnResult
    \/ StrictReplaceInFile

SpecOrchestration == InitStrict /\ [][NextOrchestration]_vars

\* Both entry points of the engine: apply_file_change on a filesystem, or
\* apply_search_replace_patch on a target file.
InitErrors == InitChange \/ Init

NextErrors ==
    \/ ApplyFileChange
    \/ ApplySearchReplacePatch
    \/ ApplyChange
    \/ ReturnResult

SpecErrors == InitErrors /\ [][NextErrors]_vars

(***************************************************************************)
(* Vocabulary of the properties.                                           *)
(***************************************************************************)
\* sub occurs in s as a contiguous run.
Contains(s, sub) ==
    \E k \in 0..(Len(s) - Len(sub)) : SubSeq(s, k + 1, k + Len(sub)) = sub

\* Some window of lines is identical to the non-empty block, line by line.
HasIdenticalWindow(lines, block) ==
    /\ block # << >>
    /\ \E i \in WindowStarts(lines, block) : Window(lines, block, i) = block

FirstIdenticalWindow(lines, block) ==
    Min({i \in WindowStarts(lines, block) : Window(lines, block, i) = block})

\* lines with the window of length n at position p replaced by repl.
ReplaceAt(lines, p, n, repl) ==
    SubSeq(lines, 1, p) \o repl \o SubSeq(lines, p + n + 1, Len(lines))

\* Matched lines of the best window, as the matcher counts them.
Matched(block, w) == matching_size(block, w, 0, Len(block), 0, Len(w))

BestMatched(lines, block) ==
    Max({Matched(block, Window(lines, block, i)) :
            i \in WindowStarts(lines, block)})

\* The target file can be read and written.
Usable(d) == d.exists /\ d.readable /\ d.writable

EndsWithNewline(text) == text # << >> /\ text[Len(text)] = "\n"

\* The diff of the call, parsed; the lines of the file before the call.
Parsed == parse_search_replace_block(diff_text)
Lines0 == splitlines(disk0.content)

\* The diff holds exactly one well-formed block, and its SEARCH lines occur
\* in the file as it was before the call.
OneBlockThatOccurs ==
    /\ ~Parsed.raised
    /\ Len(Parsed.value) = 1
    /\ HasIdenticalWindow(Lines0, Parsed.value[1].chunks[1].del_lines)

DirectDone == pc = "done" /\ entry = "apply_search_replace_patch"

(***************************************************************************)
(* C1.  replace_in_file, given a path inside the working directory that    *)
(* names an existing readable (and writable) text file and a diff with one *)
(* well-formed block whose SEARCH lines occur in the file, rewrites the    *)
(* file with the replacement and returns a text that reports success with  *)
(* "Changes applied: 1", not an error message.                             *)
(***************************************************************************)
C1_ToolAppliesOneBlock ==
    (/\ pc = "done"
     /\ entry = "replace_in_file"
     /\ is_path_safe(path)[1]
     /\ Usable(disk0)
     /\ OneBlockThatOccurs)
    => LET c == Parsed.value[1].chunks[1]
       IN  /\ Contains(response, <<"Changes applied: ", "1">>)
           /\ ~startswith(response, <<"Error modifying file: ">>)
           /\ splitlines(disk.content)
                  = ReplaceAt(Lines0,
                              FirstIdenticalWindow(Lines0, c.del_lines),
                              Len(c.del_lines), c.ins_lines)

(***************************************************************************)
(* C2.  apply_search_replace_patch with one block whose SEARCH is a single *)
(* line of a file that ends with a newline leaves the file equal to the    *)
(* original with only that line replaced and the final newline still       *)
(* there; success is true, one change is applied, there are no warnings.   *)
(***************************************************************************)
C2_KeepsFinalNewline ==
    (/\ DirectDone
     /\ Usable(disk0)
     /\ EndsWithNewline(disk0.content)
     /\ OneBlockThatOccurs
     /\ Len(Parsed.value[1].chunks[1].del_lines) = 1
     /\ Parsed.value[1].chunks[1].ins_lines # << >>)
    => LET c == Parsed.value[1].chunks[1]
       IN  /\ disk.content
                  = join(ReplaceAt(Lines0,
                                   FirstIdenticalWindow(Lines0, c.del_lines),
                                   1, c.ins_lines)) \o <<"\n">>
           /\ overall_result.success
           /\ Len(overall_result.applied_changes) = 1
           /\ overall_result.warnings = << >>

(***************************************************************************)
(* C3 as stated.  For every buffer F, every non-empty contiguous slice S   *)
(* of F at position p and every replacement R, the chunk (S, R) yields F   *)
(* with the slice at p replaced by R, prefix and suffix verbatim.          *)
(***************************************************************************)
C3_EverySliceReplacedInPlace ==
    (out # << >> /\ chunk.del_lines # << >>)
    => \A p \in WindowStarts(file_lines, chunk.del_lines) :
           Window(file_lines, chunk.del_lines, p) = chunk.del_lines
           => /\ out[1].success
              /\ out[1].lines = ReplaceAt(file_lines, p, Len(chunk.del_lines),
                                          chunk.ins_lines)

(***************************************************************************)
(* C3 amended.  For every buffer F, every non-empty block S that is        *)
(* identical to some window of F and every replacement R, the chunk (S, R) *)
(* succeeds and yields F with the lowest-index window identical to S       *)
(* replaced by R, prefix and suffix verbatim.                              *)
(***************************************************************************)
C3_FirstSliceReplaced ==
    (out # << >> /\ HasIdenticalWindow(file_lines, chunk.del_lines))
    => /\ out[1].success
       /\ out[1].error = << >>
       /\ out[1].lines
              = ReplaceAt(file_lines,
                          FirstIdenticalWindow(file_lines, chunk.del_lines),
                          Len(chunk.del_lines), chunk.ins_lines)

\* An applied chunk whose block occurs twice, the first time after line 0,
\* with lines to replace it.
C3_Witness ==
    /\ out # << >>
    /\ out[1].success
    /\ Len(chunk.del_lines) >= 2
    /\ chunk.ins_lines # << >>
    /\ HasIdenticalWindow(file_lines, chunk.del_lines)
    /\ FirstIdenticalWindow(file_lines, chunk.del_lines) > 0
    /\ \E q \in WindowStarts(file_lines, chunk.del_lines) :
           /\ q > FirstIdenticalWindow(file_lines, chunk.del_lines)
           /\ Window(file_lines, chunk.del_lines, q) = chunk.del_lines

C5_NotFoundReasonReported ==
    (/\ DirectDone
     /\ Usable(disk0)
     /\ ~Parsed.raised
     /\ Len(Parsed.value) = 1
     /\ Parsed.value[1].chunks[1].del_lines # << >>
     /\ find_best_match(Lines0, Parsed.value[1].chunks[1].del_lines)[1] = -1)
    => /\ ~overall_result.success
       /\ Len(overall_result.failed_changes) = 1
       /\ overall_result.failed_changes[1][2] = MsgNotFound
       /\ disk = disk0

(***************************************************************************)
(* C6.  Whenever apply_search_replace_patch returns success=false, the     *)
(* failure list is not empty and every entry of it carries a non-empty     *)
(* reason (so a parse error is an entry too, and a low-confidence failure  *)
(* and a not-found failure carry different reasons).                       *)
(***************************************************************************)
C6_EveryFailureHasAReason ==
    (DirectDone /\ ~overall_result.success)
    => /\ overall_result.failed_changes # << >>
       /\ \A k \in DOMAIN overall_result.failed_changes :
              overall_result.failed_changes[k][2] # << >>

(***************************************************************************)
(* C7.  For a diff with several blocks, if any block fails (not found or   *)
(* low confidence), the file after the call is identical to the file       *)
(* before the call.                                                        *)
(***************************************************************************)
C7_FailureLeavesFileUntouched ==
    (/\ DirectDone
     /\ Usable(disk0)
     /\ Len(changes) >= 2
     /\ overall_result.failed_changes # << >>)
    => disk = disk0

(***************************************************************************)
(* C8.  Once a block has failed, no later block of the diff is matched     *)
(* against the file or written to it.                                      *)
(***************************************************************************)
C8_NothingAfterFirstFailure ==
    \A m, n \in DOMAIN log :
        (/\ m < n
         /\ log[m].op = "failed"
         /\ log[n].block > log[m].block)
        => log[n].op \notin {"apply_chunk", "write"}

(***************************************************************************)
(* C9 as stated.  For every buffer and every replacement chunk with no     *)
(* identical window, if the best fuzzy window scores below 0.8, apply_chunk*)
(* fails with the low-confidence reason, which includes the confidence,    *)
(* and returns the buffer unmodified.                                      *)
(***************************************************************************)
C9_BelowThresholdIsLowConfidence ==
    (/\ out # << >>
     /\ chunk.del_lines # << >>
     /\ Len(chunk.del_lines) <= Len(file_lines)
     /\ ~HasIdenticalWindow(file_lines, chunk.del_lines)
     /\ 5 * BestMatched(file_lines, chunk.del_lines) < 4 * Len(chunk.del_lines))
    => /\ ~out[1].success
       /\ out[1].lines = file_lines
       /\ out[1].error
              = MsgLowConfidence(<<BestMatched(file_lines, chunk.del_lines),
                                   Len(chunk.del_lines)>>)

(***************************************************************************)
(* C9 amended.  For every buffer and every replacement chunk with no       *)
(* identical window, if the best fuzzy window scores below 0.8, apply_chunk*)
(* fails and returns the buffer unmodified; the reason is the              *)
(* low-confidence reason with the confidence to two decimals when the best *)
(* score is above 0, and the not-found reason when every window scores 0.  *)
(***************************************************************************)
C9_BelowThresholdFails ==
    (/\ out # << >>
     /\ chunk.del_lines # << >>
     /\ Len(chunk.del_lines) <= Len(file_lines)
     /\ ~HasIdenticalWindow(file_lines, chunk.del_lines))
    => LET best == BestMatched(file_lines, chunk.del_lines)
       IN  5 * best < 4 * Len(chunk.del_lines)
           => /\ ~out[1].success
              /\ out[1].lines = file_lines
              /\ out[1].error
                     = IF best > 0
                       THEN MsgLowConfidence(<<best, Len(chunk.del_lines)>>)
                       ELSE MsgNotFound

\* A chunk of three lines rejected with two of them matched: "0.67".
C9_Witness ==
    /\ out # << >>
    /\ Len(chunk.del_lines) = 3
    /\ ~out[1].success
    /\ out[1].error = <<"Low confidence match (", "0", ".", "6", "7",
                        ") - manual review required">>
    /\ out[1].lines = file_lines

(***************************************************************************)
(* C10.  For every buffer and every non-empty search block, if some window *)
(* of the buffer is identical to the block, find_best_match returns        *)
(* confidence 1.0 and the position of an identical window, also when a     *)
(* similar window that is not identical lies at a lower index.             *)
(***************************************************************************)
C10_IdenticalWindowWins ==
    (match # << >> /\ HasIdenticalWindow(file_lines, chunk.del_lines))
    => /\ match[1][2] = <<1, 1>>
       /\ match[1][1] \in WindowStarts(file_lines, chunk.del_lines)
       /\ Window(file_lines, chunk.del_lines, match[1][1]) = chunk.del_lines

\* The identical window is found behind a window that matches four of the
\* five lines.
C10_Witness ==
    /\ match # << >>
    /\ Len(chunk.del_lines) = 5
    /\ match[1] = <<1, <<1, 1>>>>
    /\ Matched(chunk.del_lines, Window(file_lines, chunk.del_lines, 0)) = 4

(***************************************************************************)
(* Vocabulary of the properties about apply_file_change.                   *)
(***************************************************************************)
ChangeDone == result # << >>

\* The lines of the file the change names, before and after the call.
ChangeLines0 == splitlines(FileAt(fs0, change.path).content)

\* The file the change names holds these lines, with or without a final
\* newline.
NowHolds(lines) ==
    FileAt(fs, change.path).content \in {join(lines), join(lines) \o <<"\n">>}

\* The chunk sits at position p of the buffer: its search lines are the
\* window at p and occur nowhere before p, or it is an insertion at p.
SitsAt(lines, c, p) ==
    IF c.del_lines = << >> THEN p \in 0..Len(lines)
    ELSE /\ p \in WindowStarts(lines, c.del_lines)
         /\ Window(lines, c.del_lines, p) = c.del_lines

\* An update of two chunks at original positions p1 < p2 whose first chunk
\* is found at p1 by content as well.
TwoChunkUpdate ==
    /\ ChangeDone
    /\ change.action = "update"
    /\ Len(change.chunks) = 2
    /\ change.chunks[1].orig_index < change.chunks[2].orig_index
    /\ SitsAt(ChangeLines0, change.chunks[1], change.chunks[1].orig_index)
    /\ change.chunks[1].del_lines # << >>
       => FirstIdenticalWindow(ChangeLines0, change.chunks[1].del_lines)
              = change.chunks[1].orig_index

\* The buffer the first chunk produces, and the change of the line count.
AfterFirstChunk ==
    ReplaceAt(ChangeLines0, change.chunks[1].orig_index,
              Len(change.chunks[1].del_lines), change.chunks[1].ins_lines)
Delta == Len(change.chunks[1].ins_lines) - Len(change.chunks[1].del_lines)

(***************************************************************************)
(* C11.  In an update of two chunks at original positions p1 < p2 whose    *)
(* first chunk changes the line count by D, the second chunk is applied at *)
(* position p2 + D of the buffer the first chunk produced, when it sits    *)
(* there, and at no other position.                                        *)
(***************************************************************************)
C11_SecondChunkAtShiftedPosition ==
    (/\ TwoChunkUpdate
     /\ SitsAt(AfterFirstChunk, change.chunks[2],
               change.chunks[2].orig_index + Delta))
    => /\ result[1].success
       /\ NowHolds(ReplaceAt(AfterFirstChunk,
                              change.chunks[2].orig_index + Delta,
                              Len(change.chunks[2].del_lines),
                              change.chunks[2].ins_lines))

(***************************************************************************)
(* C12.  A pure-insertion chunk (no search lines) whose position is        *)
(* greater than the length of the buffer fails and returns the buffer      *)
(* unchanged: it is neither wrapped to another position nor clamped to the *)
(* end.  A position equal to the length of the buffer is accepted and      *)
(* appends the inserted lines.                                             *)
(***************************************************************************)
C12_InsertionBeyondEndFails ==
    (out # << >> /\ chunk.del_lines = << >>)
    => /\ chunk.orig_index > Len(file_lines)
          => /\ ~out[1].success
             /\ out[1].lines = file_lines
             /\ out[1].error = MsgInsertBeyond(chunk.orig_index)
       /\ chunk.orig_index = Len(file_lines)
          => /\ out[1].success
             /\ out[1].lines = file_lines \o chunk.ins_lines

\* Two lines offered one past the end of a buffer of three lines.
C12_Witness ==
    /\ out # << >>
    /\ chunk.del_lines = << >>
    /\ Len(chunk.ins_lines) = 2
    /\ Len(file_lines) = 3
    /\ chunk.orig_index = 4
    /\ ~out[1].success
    /\ out[1].lines = file_lines

(***************************************************************************)
(* Vocabulary of the properties about parse_search_replace_block.          *)
(***************************************************************************)
\* The well-formed blocks among the pieces of the diff, in source order.
RECURSIVE BlocksOf(_)
BlocksOf(ps) ==
    IF ps = << >> THEN << >>
    ELSE (IF Head(ps).kind = "block" THEN <<Head(ps)>> ELSE << >>)
             \o BlocksOf(Tail(ps))

\* The diff is made of well-formed blocks, with or without text outside them.
OnlyWellFormedBlocks ==
    \A p \in 1..Len(pieces) : pieces[p].kind \in {"block", "text"}

\* Entry e carries exactly the search and replace lines of block b.
Carries(e, b) ==
    /\ Len(e.chunks) = 1
    /\ e.chunks[1].del_lines = b.search
    /\ e.chunks[1].ins_lines = b.replace

(***************************************************************************)
(* C13.  For every diff text made of k well-formed blocks (start marker,   *)
(* separator, end marker in that order, k >= 0), the parser returns        *)
(* exactly k entries in source order, and entry i carries exactly the      *)
(* lines between the markers of block i as search lines and replace lines. *)
(***************************************************************************)
C13_OneEntryPerBlockInOrder ==
    (parsed # << >> /\ OnlyWellFormedBlocks)
    => /\ ~parsed[1].raised
       /\ Len(parsed[1].value) = Len(BlocksOf(pieces))
       /\ \A i \in 1..Len(BlocksOf(pieces)) :
              Carries(parsed[1].value[i], BlocksOf(pieces)[i])

\* A block with padded markers, text outside the blocks, and a block whose
\* search lines are an indented line and an empty line.
C13_Witness ==
    /\ parsed # << >>
    /\ Len(pieces) = 3
    /\ pieces[1].kind = "block" /\ pieces[1].lines[1] = <<" ", SEARCH_MARK>>
    /\ pieces[2].kind = "text"
    /\ pieces[3].kind = "block"
    /\ pieces[3].search = <<<<" ", "a", " ">>, << >>>>
    /\ Len(parsed[1].value) = 2
    /\ Carries(parsed[1].value[2], pieces[3])

(***************************************************************************)
(* C14.  For every diff text in which block j has no separator line, also  *)
(* when well-formed blocks follow block j, parsing fails with the error    *)
(* that names the missing separator; no entry is produced for block j or   *)
(* for a later block, and their lines are never merged into one entry.     *)
(***************************************************************************)
C14_MissingSeparatorIsAnError ==
    (/\ parsed # << >>
     /\ \E j \in 1..Len(pieces) :
            /\ pieces[j].kind = "no_separator"
            /\ \A p \in 1..(j - 1) : pieces[p].kind \in {"block", "text"})
    => parsed[1] = Raised(MsgMissingSeparator)

(***************************************************************************)
(* C15.  A line that consists of a marker followed by extra characters is  *)
(* never recognised as that marker: outside a block it is ignored and      *)
(* opens no block, inside a block it is kept as ordinary content.  This    *)
(* holds for the start marker, the separator and the end marker.           *)
(***************************************************************************)
C15_MarkerWithStrayCharacterIsNoMarker ==
    (/\ parsed # << >>
     /\ \A p \in 1..Len(pieces) :
            pieces[p].kind \in {"block", "text", "stray_start"})
    => /\ ~parsed[1].raised
       /\ Len(parsed[1].value) = Len(BlocksOf(pieces))
       /\ \A i \in 1..Len(BlocksOf(pieces)) :
              Carries(parsed[1].value[i], BlocksOf(pieces)[i])

(***************************************************************************)
(* Vocabulary of the properties about the strict replace_in_file tool.     *)
(***************************************************************************)
StrictDone == pc = "done" /\ entry = "strict_replace_in_file"

SearchText(b) == join(b.search)
ReplaceText(b) == join(b.replace)

\* text with the first occurrence of s replaced by r (s occurs in text).
FirstOccurrence(text, s) ==
    Min({k \in 0..(Len(text) - Len(s)) :
             SubSeq(text, k + 1, k + Len(s)) = s})
ReplacedFirst(text, s, r) ==
    SubSeq(text, 1, FirstOccurrence(text, s)) \o r
        \o SubSeq(text, FirstOccurrence(text, s) + Len(s) + 1, Len(text))

\* The left-to-right fold of first-occurrence replacement over the blocks:
\* Some(text), or None when a block's search text is not in the buffer it
\* meets.
RECURSIVE Fold(_, _)
Fold(blocks, text) ==
    IF blocks = << >> THEN Some(text)
    ELSE IF ~Contains(text, SearchText(Head(blocks))) THEN None
    ELSE Fold(Tail(blocks),
              ReplacedFirst(text, SearchText(Head(blocks)),
                            ReplaceText(Head(blocks))))

Malformed ==
    \E p \in 1..Len(pieces) : pieces[p].kind \in {"no_separator", "no_end"}

EveryBlockMatches ==
    /\ ~Malformed
    /\ BlocksOf(pieces) # << >>
    /\ Fold(BlocksOf(pieces), disk0.content) # None

IsStrictError(r) ==
    /\ r # << >>
    /\ r[1] \in {"Error: The file '",
                 "Error: Malformed diff - missing ",
                 "Error: No valid SEARCH/REPLACE blocks found in diff",
                 "Error: Could not find the exact text to replace:",
                 "Error replacing content in file: "}

Writes == Cardinality({n \in 1..Len(log) : log[n].op = "write"})

(***************************************************************************)
(* C16.  The strict tool is all-or-nothing: if the search text of some     *)
(* block is not a verbatim substring of the buffer it meets, or the diff   *)
(* is malformed or holds no block, the tool returns an error and the file  *)
(* on disk is unchanged, even when earlier blocks of the call matched and  *)
(* were replaced in memory.  The file is written at most once, and only    *)
(* when every block matched; then it is written exactly once.              *)
(***************************************************************************)
C16_StrictIsAllOrNothing ==
    StrictDone
    => /\ ~EveryBlockMatches
          => /\ IsStrictError(response)
             /\ disk = disk0
             /\ Writes = 0
       /\ Writes <= 1
       /\ (EveryBlockMatches /\ Usable(disk0) /\ ~disk0.isdir) => Writes = 1

(***************************************************************************)
(* C17.  The strict tool applies the blocks in diff order to one live      *)
(* buffer: each block replaces only the first occurrence of its search     *)
(* text in the buffer as the previous blocks left it, so a later block can *)
(* match text that an earlier replacement put in.  The written file is the *)
(* left-to-right fold of first-occurrence replacement over the blocks, and *)
(* the reported count is the number of blocks.                             *)
(***************************************************************************)
C17_WrittenFileIsTheFold ==
    (StrictDone /\ Usable(disk0) /\ ~disk0.isdir /\ EveryBlockMatches)
    => /\ disk.content = Fold(BlocksOf(pieces), disk0.content)[1]
       /\ response = MsgStrictApplied(Len(BlocksOf(pieces)), path)

\* The file holds the first block's search text twice, and the second block
\* searches for what the first block put in.
C17_Witness ==
    /\ StrictDone
    /\ Len(pieces) = 2
    /\ pieces[1].kind = "block" /\ pieces[2].kind = "block"
    /\ disk0.content = <<"a", "\n", "a", "\n">>
    /\ SearchText(pieces[1]) = <<"a">>
    /\ SearchText(pieces[2]) = <<"x">>
    /\ ~Contains(disk0.content, <<"x">>)
    /\ disk.content = <<"\n", "a", "\n">>
    /\ response = MsgStrictApplied(2, path)

(***************************************************************************)
(* Vocabulary of the properties about validate_patch_safety.               *)
(***************************************************************************)
\* The total number of lines the chunks of change c delete / insert.
RECURSIVE Total(_, _)
Total(cs, side) ==
    IF cs = << >> THEN 0
    ELSE Total(SubSeq(cs, 1, Len(cs) - 1), side)
             + Len(IF side = "deleted" THEN cs[Len(cs)].del_lines
                                       ELSE cs[Len(cs)].ins_lines)

ExpectedFor(c) ==
    IF c.action = "delete" THEN <<MsgDeleting(c.path)>>
    ELSE IF c.action = "update"
    THEN (IF Total(c.chunks, "deleted") > 100
          THEN <<MsgLargeDeletion(c.path, Total(c.chunks, "deleted"))>>
          ELSE << >>)
         \o (IF Total(c.chunks, "inserted") > 100
             THEN <<MsgLargeInsertion(c.path, Total(c.chunks, "inserted"))>>
             ELSE << >>)
    ELSE << >>

RECURSIVE ExpectedWarnings(_)
ExpectedWarnings(cs) ==
    IF cs = << >> THEN << >>
    ELSE ExpectedFor(Head(cs)) \o ExpectedWarnings(Tail(cs))

(***************************************************************************)
(* C18.  validate_patch_safety returns, for a list of pending changes, one *)
(* 'Deleting file' notice per Delete change, and for each Update change    *)
(* one deletion warning naming the exact total iff the deleted lines of    *)
(* all its chunks sum to more than 100, and one insertion warning naming   *)
(* the exact total iff the inserted lines sum to more than 100.  Totals of *)
(* exactly 100 give no warning, Create and Move changes give none, and the *)
(* changes are not modified.                                               *)
(***************************************************************************)
C18_WarningsForDeletesAndLargeUpdates ==
    [][(pc = "idle" /\ pc' = "done")
       => /\ warnings' = ExpectedWarnings(changes)
          /\ changes' = changes]_vars

\* An update whose two chunks delete 50 + 50 = 100 lines and insert
\* 50 + 50 = 100 lines, followed by an update whose chunks delete
\* 50 + 51 = 101 lines.
C18_Witness ==
    /\ pc = "done" /\ entry = "validate_patch_safety"
    /\ Len(changes) = 2
    /\ changes[1].action = "update" /\ Len(changes[1].chunks) = 2
    /\ Total(changes[1].chunks, "deleted") = 100
    /\ Total(changes[1].chunks, "inserted") = 100
    /\ changes[2].action = "update" /\ Len(changes[2].chunks) = 2
    /\ Total(changes[2].chunks, "deleted") = 101
    /\ warnings = <<MsgLargeDeletion(FilePath, 101)>>

(***************************************************************************)
(* Vocabulary of the properties about preconditions and deletion.          *)
(***************************************************************************)
NoDestination == change.move_to = None \/ change.move_to = Some(<< >>)

PreconditionViolated ==
    \/ change.action = "add" /\ exists(fs0, change.path)
    \/ change.action \in {"update", "delete"} /\ ~exists(fs0, change.path)
    \/ change.action = "move"
           /\ (~exists(fs0, change.path) \/ NoDestination)

(***************************************************************************)
(* C19.  A change whose precondition is violated (Create on an existing    *)
(* path, Update or Delete on a missing path, Move with a missing source or *)
(* with no destination) is reported as a failure of that change and        *)
(* mutates nothing: no file is created, written, removed or moved, no      *)
(* directory is created, and an existing target keeps its content.         *)
(***************************************************************************)
C19_ViolatedPreconditionMutatesNothing ==
    (ChangeDone /\ PreconditionViolated)
    => /\ ~result[1].success
       /\ result[1].message # << >>
       /\ fs = fs0

\* A creation with content on the path of an existing file in a directory.
C19_Witness ==
    /\ ChangeDone
    /\ change.action = "add"
    /\ change.path = InnerPath
    /\ change.new_content = Some(<<"h">>)
    /\ exists(fs0, InnerPath)
    /\ result[1].message = MsgFileExists(InnerPath)
    /\ FileAt(fs, InnerPath).content = OtherContent

(***************************************************************************)
(* C20.  A Delete change applied to an existing path succeeds for both     *)
(* kinds of target: a file is removed, and a directory is removed          *)
(* recursively with its contents; after success the path no longer exists. *)
(***************************************************************************)
C20_DeleteRemovesFileOrDirectory ==
    (ChangeDone /\ change.action = "delete" /\ exists(fs0, change.path))
    => /\ result[1].success
       /\ \A q \in DOMAIN fs : q # change.path /\ ~Below(change.path, q)

(***************************************************************************)
(* Vocabulary of the properties about errors.                              *)
(***************************************************************************)
Target0 == FileAt(fs0, change.path)

UnknownAction == change.action \notin {"add", "delete", "update", "move"}
MissingFile ==
    change.action \in {"update", "delete", "move"} /\ ~exists(fs0, change.path)
ReadError ==
    /\ change.action = "update" /\ exists(fs0, change.path)
    /\ Target0.isdir \/ ~Target0.readable
WriteError ==
    /\ change.action = "update" /\ exists(fs0, change.path)
    /\ ~Target0.isdir /\ Target0.readable /\ ~Target0.writable
    /\ ApplyChunks(sorted_chunks(change.chunks),
                   splitlines(Target0.content), 0, 0).success
RemoveError ==
    change.action = "delete" /\ exists(fs0, change.path) /\ Target0.isdir
CreateError ==
    /\ change.action = "add" /\ ~exists(fs0, change.path)
    /\ makedirs(fs0, dirname(change.path)).raised
MoveError ==
    /\ change.action = "move" /\ exists(fs0, change.path) /\ ~NoDestination
    /\ \/ makedirs(fs0, dirname(change.move_to[1])).raised
       \/ rename(makedirs(fs0, dirname(change.move_to[1])).fs,
                 change.path, change.move_to[1]).raised
ChangeError ==
    UnknownAction \/ MissingFile \/ ReadError \/ WriteError \/ RemoveError
        \/ CreateError \/ MoveError

\* The diff is malformed or holds no block, or the target is missing or
\* cannot be read or written.
PatchError == Parsed.raised \/ Parsed.value = << >> \/ ~Usable(disk0)

(***************************************************************************)
(* C21.  apply_file_change and apply_search_replace_patch never propagate  *)
(* an error to the caller: for a malformed diff, a missing file, an I/O or *)
(* permission error during read, write, remove or move, and an unknown     *)
(* action, they return a PatchResult with success = false and a non-empty  *)
(* message.                                                                *)
(***************************************************************************)
C21_ErrorsAreReturnedWithAMessage ==
    /\ (ChangeDone /\ ChangeError)
       => /\ ~result[1].success
          /\ result[1].message # << >>
    /\ (DirectDone /\ PatchError)
       => /\ ~overall_result.success
          /\ overall_result.message # << >>

\* A move whose rename fails, after the directories were made.
C21_Witness ==
    /\ ChangeDone
    /\ MoveError
    /\ ~makedirs(fs0, dirname(change.move_to[1])).raised
    /\ ~result[1].success
    /\ result[1].message
           = MsgMoveFailed(rename(makedirs(fs0, dirname(change.move_to[1])).fs,
                                  change.path, change.move_to[1]).error)

(***************************************************************************)
(* C23.  After change_directory(p) has succeeded, every later              *)
(* execute_command runs its command with p as working directory, until     *)
(* another change_directory succeeds: the directory that                   *)
(* get_current_directory reports is the directory in which commands run.   *)
(***************************************************************************)
C23_CommandsRunInChangedDirectory ==
    \A n \in 1..Len(runs) :
        runs[n].last_cd # None => runs[n].dir = runs[n].last_cd[1]

(***************************************************************************)
(* Vocabulary of the properties about a diff without blocks.               *)
(***************************************************************************)
\* The diff holds no block: it is empty or made of text outside blocks.
NoBlock == \A p \in 1..Len(pieces) : pieces[p].kind = "text"

ParserReturnsNothing == parsed # << >> => parsed[1] = Returned(<< >>)

EngineReportsNoBlocks ==
    DirectDone
    => /\ overall_result = PatchResult(FALSE, MsgNoBlocks)
       /\ disk = disk0
       /\ Writes = 0

Readable(d) == d.exists /\ ~d.isdir /\ d.readable

(***************************************************************************)
(* C22 as stated.  For a diff text that contains no block, the parser      *)
(* returns an empty sequence without raising, and apply_search_replace_    *)
(* patch and the strict replace_in_file report the error 'No valid         *)
(* SEARCH/REPLACE blocks found' and do not write the target file.          *)
(***************************************************************************)
C22_NoBlockIsReportedByBothLayers ==
    NoBlock
    => /\ ParserReturnsNothing
       /\ EngineReportsNoBlocks
       /\ StrictDone
          => /\ response = MsgStrictNoBlocks
             /\ disk = disk0
             /\ Writes = 0

(***************************************************************************)
(* C22, made precise.  For a diff text that contains no block, the parser  *)
(* returns an empty sequence without raising; apply_search_replace_patch   *)
(* reports 'No valid SEARCH/REPLACE blocks found' with success = false     *)
(* whatever the target is; the strict replace_in_file reports it when the  *)
(* target exists and can be read, and otherwise reports the missing or     *)
(* unreadable target; neither writes the target file.                      *)
(***************************************************************************)
C22_NoBlockIsReportedAfterTheFileIsRead ==
    NoBlock
    => /\ ParserReturnsNothing
       /\ EngineReportsNoBlocks
       /\ StrictDone
          => /\ Readable(disk0) => response = MsgStrictNoBlocks
             /\ ~disk0.exists => response = MsgStrictNotExist(path)
             /\ (disk0.exists /\ ~Readable(disk0))
                => response[1] = "Error replacing content in file: "
             /\ disk = disk0
             /\ Writes = 0

\* The strict tool has answered a diff of text lines on a readable file.
C22_Witness ==
    /\ StrictDone
    /\ NoBlock
    /\ pieces # << >>
    /\ Readable(disk0)
    /\ disk0.content # << >>
    /\ response = MsgStrictNoBlocks
    /\ disk = disk0

(***************************************************************************)
(* Vocabulary of the properties about the chunks of one Update.            *)
(***************************************************************************)
\* The chunks in the order of the loop.
Sorted == sorted_chunks(change.chunks)

\* The running offset after the first k chunks.
RECURSIVE OffsetAfter(_)
OffsetAfter(k) ==
    IF k = 0 THEN 0
    ELSE OffsetAfter(k - 1) + Len(Sorted[k].ins_lines)
             - Len(Sorted[k].del_lines)

\* Chunk k as it is handed to apply_chunk.
Adjusted(k) == [Sorted[k] EXCEPT !.orig_index = @ + OffsetAfter(k - 1)]

\* The buffer after the first k chunks, each applied to what the chunks
\* before it left.
RECURSIVE BufferAfter(_)
BufferAfter(k) ==
    IF k = 0 THEN ChangeLines0
    ELSE apply_chunk(BufferAfter(k - 1), Adjusted(k)).lines

Succeeds(k) == apply_chunk(BufferAfter(k - 1), Adjusted(k)).success

\* The first chunk that fails, if any.
FirstFailing ==
    {k \in 1..Len(Sorted) : ~Succeeds(k) /\ \A j \in 1..(k - 1) : Succeeds(j)}

Count(op) == Cardinality({n \in 1..Len(log) : log[n].op = op})

UpdateDone ==
    /\ ChangeDone
    /\ change.action = "update"
    /\ exists(fs0, change.path)
    /\ Usable(Target0) /\ ~Target0.isdir

(***************************************************************************)
(* C24.  apply_file_change on one Update change with n chunks reads the    *)
(* file once; it writes it exactly once when all n chunks succeed and not  *)
(* at all when a chunk fails.  When chunk i fails, the chunks after i are  *)
(* not processed, the edits of the chunks before i are discarded, the file *)
(* on disk is unchanged, and the result holds exactly one failure entry,   *)
(* with the error of chunk i.                                              *)
(***************************************************************************)
C24_OneReadAndAtMostOneWrite ==
    UpdateDone
    => /\ Count("read") = 1
       /\ FirstFailing = {}
          => /\ result[1].success
             /\ Count("apply_chunk") = Len(Sorted)
             /\ Count("write") = 1
             /\ FileAt(fs, change.path).content
                    = join(BufferAfter(Len(Sorted)))
       /\ \A i \in FirstFailing :
              /\ ~result[1].success
              /\ Count("apply_chunk") = i
              /\ Count("write") = 0
              /\ fs = fs0
              /\ result[1].failed_changes
                     = <<<<change,
                          apply_chunk(BufferAfter(i - 1), Adjusted(i)).error>>>>

\* The first of two chunks replaces a line, the second is not found in what
\* the first left.
C24_Witness ==
    /\ UpdateDone
    /\ Len(Sorted) = 2
    /\ FirstFailing = {2}
    /\ BufferAfter(1) # ChangeLines0
    /\ result[1].failed_changes = <<<<change, MsgNotFound>>>>
    /\ fs = fs0

(***************************************************************************)
(* C25.  In an Update, after any sequence of previously applied chunks     *)
(* (also chunks that delete more lines than they insert, so that the       *)
(* running offset is negative), every pure-insertion chunk either fails or *)
(* is spliced at exactly the position q = orig_index + offset with         *)
(* 0 <= q <= len(buffer): the new buffer is buffer[0..q), the inserted     *)
(* lines, buffer[q..).  No insertion happens at a position out of range or *)
(* other than q.                                                           *)
(***************************************************************************)
C25_InsertionSplicedAtAdjustedPosition ==
    UpdateDone
    => \A k \in 1..Len(Sorted) :
           (/\ Sorted[k].del_lines = << >>
            /\ \A j \in 1..k : Succeeds(j))
           => /\ Adjusted(k).orig_index \in 0..Len(BufferAfter(k - 1))
              /\ BufferAfter(k)
                     = SubSeq(BufferAfter(k - 1), 1, Adjusted(k).orig_index)
                           \o Sorted[k].ins_lines
                           \o SubSeq(BufferAfter(k - 1),
                                     Adjusted(k).orig_index + 1,
                                     Len(BufferAfter(k - 1)))

\* The positions, other than the lowest, of the windows of the buffer that
\* are identical to the search lines.
OtherOccurrences ==
    {j \in WindowStarts(file_lines, chunk.del_lines) :
        /\ Window(file_lines, chunk.del_lines, j) = chunk.del_lines
        /\ j # FirstIdenticalWindow(file_lines, chunk.del_lines)}

\* The position in the resulting buffer of the line that was at position j
\* behind the replaced window.
Shifted(j) == j - Len(chunk.del_lines) + Len(chunk.ins_lines)

\* The occurrence at j of the input buffer is a window of the result.
StillPresent(j) ==
    /\ Shifted(j) \in WindowStarts(out[1].lines, chunk.del_lines)
    /\ Window(out[1].lines, chunk.del_lines, Shifted(j)) = chunk.del_lines

(***************************************************************************)
(* C26 as stated.  When the search lines occur as identical windows at     *)
(* several positions of the buffer, a replacement chunk replaces only the  *)
(* occurrence with the lowest index; every other occurrence is still       *)
(* present, unchanged, in the resulting buffer.                            *)
(***************************************************************************)
C26_EveryOtherOccurrenceStillPresent ==
    (out # << >> /\ HasIdenticalWindow(file_lines, chunk.del_lines))
    => /\ out[1].success
       /\ \A j \in OtherOccurrences : StillPresent(j)

(***************************************************************************)
(* C26 amended.  When the search lines occur as identical windows at       *)
(* several positions of the buffer, a replacement chunk replaces only the  *)
(* occurrence with the lowest index; every other occurrence that does not  *)
(* overlap the replaced window is still present, unchanged, in the         *)
(* resulting buffer at its position shifted by the change of length.       *)
(***************************************************************************)
C26_OccurrencesBehindTheFirstStillPresent ==
    (out # << >> /\ HasIdenticalWindow(file_lines, chunk.del_lines))
    => LET first == FirstIdenticalWindow(file_lines, chunk.del_lines)
       IN  /\ out[1].success
           /\ Len(out[1].lines) = Shifted(Len(file_lines))
           /\ Window(out[1].lines, chunk.ins_lines, first) = chunk.ins_lines
           /\ \A j \in OtherOccurrences :
                  j >= first + Len(chunk.del_lines) => StillPresent(j)

\* A block of two lines replaced at its first occurrence, with a second
\* occurrence overlapping the first and a third behind it.
C26_Witness ==
    /\ out # << >>
    /\ out[1].success
    /\ Len(chunk.del_lines) = 2
    /\ chunk.ins_lines # << >>
    /\ HasIdenticalWindow(file_lines, chunk.del_lines)
    /\ \E j, k \in OtherOccurrences :
           /\ j < FirstIdenticalWindow(file_lines, chunk.del_lines) + 2
           /\ k >= FirstIdenticalWindow(file_lines, chunk.del_lines) + 2
           /\ StillPresent(k)

\* The windows of the buffer, none identical to the search lines, of which
\* the matcher counts n lines as matched.
WindowsMatching(n) ==
    {i \in WindowStarts(file_lines, chunk.del_lines) :
        Matched(chunk.del_lines, Window(file_lines, chunk.del_lines, i)) = n}

(***************************************************************************)
(* C27.  The confidence of a same-length window that is not identical is   *)
(* (matched lines)/(search lines) and it is accepted when it is >= 0.8:    *)
(* a replacement chunk with 1 to 4 search lines succeeds only when an      *)
(* identical window exists; a window that is not identical is accepted     *)
(* only for search blocks of 5 or more lines; and a window with exactly 4  *)
(* of 5 lines matching (0.8) is accepted.                                  *)
(***************************************************************************)
C27_FuzzyAcceptedOnlyFromFiveLines ==
    LET n        == Len(chunk.del_lines)
        exact    == HasIdenticalWindow(file_lines, chunk.del_lines)
    IN  /\ (match # << >> /\ n > 0 /\ ~exact /\ match[1][1] # -1)
            => /\ match[1][1] \in WindowStarts(file_lines, chunk.del_lines)
               /\ match[1][2][1] * n
                      = match[1][2][2]
                            * Matched(chunk.del_lines,
                                      Window(file_lines, chunk.del_lines,
                                             match[1][1]))
        /\ (out # << >> /\ n \in 1..4 /\ out[1].success) => exact
        /\ (out # << >> /\ n > 0 /\ out[1].success /\ ~exact) => n >= 5
        /\ (out # << >> /\ n = 5 /\ ~exact /\ WindowsMatching(4) # {})
            => /\ out[1].success
               /\ \E i \in WindowsMatching(4) :
                      out[1].lines = ReplaceAt(file_lines, i, n, chunk.ins_lines)

\* Four search lines of which the best window matches three are rejected, and
\* the matcher scores that window 3/4.
C27_Witness ==
    /\ out # << >>
    /\ match # << >>
    /\ Len(chunk.del_lines) = 4
    /\ ~HasIdenticalWindow(file_lines, chunk.del_lines)
    /\ WindowsMatching(3) # {}
    /\ match[1][2][1] * 4 = match[1][2][2] * 3
    /\ ~out[1].success
    /\ out[1].lines = file_lines

\* The index the matcher returns for the chunk's search lines.
MatchIndex == find_best_match(file_lines, chunk.del_lines)[1]

(***************************************************************************)
(* C28.  apply_chunk changes nothing outside the matched window.  On a     *)
(* successful replacement at match index m the result has length           *)
(* len(buffer) - len(del_lines) + len(ins_lines), its first m lines equal  *)
(* buffer[0..m) and its lines after the inserted ones equal                *)
(* buffer[m+len(del_lines)..) in order; on every failure the returned      *)
(* buffer equals the input buffer; the input list and the chunk are never  *)
(* mutated.                                                                *)
(***************************************************************************)
C28_NothingOutsideTheWindowChanges ==
    [][(out = << >> /\ out' # << >>)
       => LET r == out'[1]
              m == MatchIndex
              d == Len(chunk.del_lines)
              i == Len(chunk.ins_lines)
          IN  /\ (r.success /\ d > 0)
                 => /\ m \in WindowStarts(file_lines, chunk.del_lines)
                    /\ Len(r.lines) = Len(file_lines) - d + i
                    /\ SubSeq(r.lines, 1, m) = SubSeq(file_lines, 1, m)
                    /\ SubSeq(r.lines, m + 1, m + i) = chunk.ins_lines
                    /\ SubSeq(r.lines, m + i + 1, Len(r.lines))
                           = SubSeq(file_lines, m + d + 1, Len(file_lines))
              /\ ~r.success => (r.lines = file_lines /\ r.error # << >>)
              /\ file_lines' = file_lines
              /\ chunk' = chunk]_vars

\* A replacement in the middle of the buffer that changes its length, with
\* lines before and behind the window.
C28_Witness ==
    /\ out # << >>
    /\ out[1].success
    /\ chunk.del_lines # << >>
    /\ Len(chunk.ins_lines) # Len(chunk.del_lines)
    /\ MatchIndex > 0
    /\ MatchIndex + Len(chunk.del_lines) < Len(file_lines)
    /\ Len(out[1].lines) = Len(file_lines) - Len(chunk.del_lines)
                               + Len(chunk.ins_lines)

\* Every parsed block is an Update of its own with one chunk of orig_index 0.
SingleChunkUpdates ==
    \A k \in 1..Len(changes) :
        /\ changes[k].action = "update"
        /\ Len(changes[k].chunks) = 1
        /\ changes[k].chunks[1].orig_index = 0

\* The loop of apply_search_replace_patch has processed the block c with an
\* empty SEARCH side on the file d: the file holds the REPLACE lines of c
\* in front of the lines it had, joined by newlines, and c is recorded as
\* applied.
InsertedAtTop(c, d) ==
    /\ disk'.exists
    /\ disk'.content
           = join(c.chunks[1].ins_lines \o splitlines(d.content))
    /\ overall_result'.applied_changes
           = Append(overall_result.applied_changes, c)
    /\ overall_result'.failed_changes = overall_result.failed_changes
    /\ overall_result'.success = overall_result.success

\* One iteration of the loop on a block with an empty SEARCH side.
InsertionStep ==
    /\ pc = "applying"
    /\ idx' = idx + 1
    /\ changes[idx + 1].chunks[1].del_lines = << >>

(***************************************************************************)
(* C29 as stated.  Every chunk produced by parse_search_replace_block has  *)
(* orig_index 0 and every block becomes its own single-chunk Update, so a  *)
(* block with an empty SEARCH side applied through                         *)
(* apply_search_replace_patch always inserts its REPLACE lines at the very *)
(* top of the file, whatever blocks precede it and whatever the file       *)
(* contains; such a block never fails on an existing file.                 *)
(***************************************************************************)
C29_EmptySearchNeverFailsOnExistingFile ==
    [][/\ pc' = "applying" => SingleChunkUpdates'
       /\ (InsertionStep /\ disk.exists)
          => InsertedAtTop(changes[idx + 1], disk)]_vars

(***************************************************************************)
(* C29 amended.  Every chunk produced by parse_search_replace_block has    *)
(* orig_index 0 and every block becomes its own single-chunk Update, so a  *)
(* block with an empty SEARCH side applied through                         *)
(* apply_search_replace_patch inserts its REPLACE lines at the very top of *)
(* the file, whatever blocks precede it and whatever the file contains,    *)
(* and does not fail, when the file exists and can be read and written; on *)
(* an existing file that cannot be read or cannot be written the block     *)
(* fails and the file is left as it was.                                   *)
(***************************************************************************)
C29_EmptySearchInsertsAtTopOfUsableFile ==
    [][/\ pc' = "applying" => SingleChunkUpdates'
       /\ (InsertionStep /\ Usable(disk))
          => InsertedAtTop(changes[idx + 1], disk)
       /\ (InsertionStep /\ disk.exists /\ ~Usable(disk))
          => /\ disk' = disk
             /\ ~overall_result'.success
             /\ Len(overall_result'.failed_changes)
                    = Len(overall_result.failed_changes) + 1]_vars

\* The second block of a diff has an empty SEARCH side and its line is the
\* first line of the file, in front of the line the first block has put
\* there.
C29_Witness ==
    /\ pc = "done"
    /\ Len(changes) = 2
    /\ changes[1].chunks[1].del_lines # << >>
    /\ changes[2].chunks[1].del_lines = << >>
    /\ changes[2].chunks[1].ins_lines = <<<<"x">>>>
    /\ Len(overall_result.applied_changes) = 2
    /\ Len(splitlines(disk0.content)) = 2
    /\ splitlines(disk.content)[1] = <<"x">>
    /\ splitlines(disk.content)[2] = <<"x">>

\* The changes of the blocks whose numbers are in S, among the first k, in
\* the order of the diff.
RECURSIVE Picked(_, _)
Picked(S, k) ==
    IF k = 0 THEN << >>
    ELSE Picked(S, k - 1) \o (IF k \in S THEN <<changes[k]>> ELSE << >>)

\* The changes of the failure entries (change, error) of the outcome.
FailedChanges ==
    [n \in 1..Len(overall_result.failed_changes) |->
        overall_result.failed_changes[n][1]]

\* The engine has parsed at least one block and has returned.
PatchReturned == pc = "done" /\ changes # << >>

(***************************************************************************)
(* C30.  When apply_search_replace_patch parses k >= 1 blocks without a    *)
(* parse error, every block ends in exactly one of the two lists of the    *)
(* returned outcome: len(applied_changes) + len(failed_changes) = k, both  *)
(* lists keep the diff order, no block is in both, and success is true     *)
(* exactly when failed_changes is empty.                                   *)
(***************************************************************************)
C30_EveryBlockInExactlyOneList ==
    PatchReturned
    => LET k == Len(changes)
       IN  /\ ~Parsed.raised
           /\ k = Len(Parsed.value)
           /\ Len(overall_result.applied_changes)
                  + Len(overall_result.failed_changes) = k
           /\ \E A \in SUBSET (1..k) :
                  /\ overall_result.applied_changes = Picked(A, k)
                  /\ FailedChanges = Picked((1..k) \ A, k)
           /\ overall_result.success
                  <=> overall_result.failed_changes = << >>

\* Two blocks with the same text: the first is applied, the second, which
\* no longer finds its line, has failed.
C30_Witness ==
    /\ PatchReturned
    /\ Len(changes) = 2
    /\ changes[1] = changes[2]
    /\ overall_result.applied_changes = <<changes[1]>>
    /\ FailedChanges = <<changes[2]>>
    /\ ~overall_result.success
    /\ disk # disk0

====
